---- MODULE Spec2Model ----
(***************************************************************************)
(* vesperdb: the query cache (QueryCache over an lru-cache store, with the *)
(* table -> keys index tableMap), the cache middleware handlers and the    *)
(* statement path Client.query they sit next to; the query and schema      *)
(* compilers of the dialects; Client.transaction; the vesperDB factory.    *)
(***************************************************************************)
EXTENDS Integers, Sequences, FiniteSets, TLC

VARIABLES
  cache,      \* this.cache: the LRUCache, a sequence of entries, least recently used first
  tableMap,   \* this.tableMap: Map table name -> Set of cache keys
  stats,      \* this.stats: hits, misses, sets, invalidations
  ret,        \* the last QueryCache call made on the cache object and what it returned
  db,         \* the database: per table, the number of writes applied to it
  query,      \* per in-flight statement: the query object and the position of its execution
  acked,      \* per table: db version of the last write whose response the middleware processed
  issued,     \* the number of statements sent so far
  fp,         \* the last two generateCacheKey calls: their arguments and the keys returned
  ir,         \* the statement spec a caller holds (columns of a TableBuilder, builder statements)
  call,       \* the last compiler or builder call: what it was given and what came out
  trx,        \* per Client.transaction run: its position and the dialect calls made so far
  boot,       \* the last vesperDB(config) call: the config, what was done, what was thrown
  ext,        \* the last extractTablesFromQuery call on a hand-written text, and its result
  probe,      \* the last hasTable / hasColumn call: the database it ran on and what it returned
  client,     \* the Client object: its dialect and its connectionPool
  qry         \* per Client.query call: its position, the releases made, what the caller got

restVars == <<ext, probe, client, qry>>
cacheVars == <<cache, tableMap, stats, ret, db, query, acked, issued>>
otherVars == <<fp, ir, call, trx, boot, restVars>>
vars == <<cache, tableMap, stats, ret, db, query, acked, issued, fp, ir, call, trx, boot,
          ext, probe, client, qry>>

\* the elements of an array
Range(l) == {l[i] : i \in DOMAIN l}

----------------------------------------------------------------------------
(* Bounds *)

\* the `max` option of the cache (500 by default), kept small so that eviction happens
CacheMax == 2
\* the number of get/set calls followed on one cache object
MaxCalls == 3
\* the number of statements sent through the middleware
MaxStmts == 3

----------------------------------------------------------------------------
(* Values *)

Tables == {"users", "orders"}

NoRows == [t \in {} |-> 0]
\* a result set, named by the table versions it was read at
Rows(r) == [kind |-> "rows", rows |-> r]
Null == [kind |-> "null", rows |-> NoRows]
Undefined == [kind |-> "undefined", rows |-> NoRows]
\* the values `!value` rejects
FalsyValues == {[kind |-> k, rows |-> NoRows] : k \in {"null", "undefined", "false", "zero", "empty"}}
\* as if only null and undefined were rejected
Truthy_NullishOnly(v) == v.kind \notin {"null", "undefined"}
Truthy(v) == v \notin FalsyValues

\* the options the cache is built with; the clock ticks once per ttl (five minutes)
Ttl == 1
AllowStale == FALSE

\* config.client of the instance
Dialect == "sqlite"

----------------------------------------------------------------------------
(* Statements: sql is the rendered text, token by token *)

SelUsers == [method |-> "select", sql |-> <<"SELECT", "*", "FROM", "users">>,
             bindings |-> <<>>, reads |-> {"users"}, writes |-> {}]
SelOrders == [method |-> "select", sql |-> <<"SELECT", "*", "FROM", "orders">>,
              bindings |-> <<>>, reads |-> {"orders"}, writes |-> {}]
SelJoin == [method |-> "select",
            sql |-> <<"SELECT", "*", "FROM", "users", "JOIN", "orders", "ON",
                      "users.id", "=", "orders.user_id">>,
            bindings |-> <<>>, reads |-> {"users", "orders"}, writes |-> {}]
UpdOrders == [method |-> "update",
              sql |-> <<"UPDATE", "orders", "SET", "status", "=", "?">>,
              bindings |-> <<"1">>, reads |-> {}, writes |-> {"orders"}]

Selects == {SelUsers, SelOrders, SelJoin}
Statements ==
  LET DropOrders == [method |-> "ddl",
                     sql |-> <<"DROP", "TABLE", "IF", "EXISTS", "orders">>,
                     bindings |-> <<>>, reads |-> {}, writes |-> {"orders"}]
      InsUsers == [method |-> "insert",
                   sql |-> <<"INSERT", "INTO", "users", "(", "name", ")", "VALUES", "(", "?", ")">>,
                   bindings |-> <<"1">>, reads |-> {}, writes |-> {"users"}]
  IN
              {SelUsers, SelJoin, UpdOrders, InsUsers, DropOrders}

\* the md5 digest is taken as a name of the JSON text it digests
generateCacheKey(sql, bindings, dialect) ==
  LET \* JSON.stringify of one binding: inside an array undefined and NaN become null
      JsonScalar(v) == IF v \in {"undefined", "NaN"} THEN "null" ELSE v
  IN
  <<sql, [i \in DOMAIN bindings |-> JsonScalar(bindings[i])], dialect>>

KeyOf(q) == generateCacheKey(q.sql, q.bindings, Dialect)

----------------------------------------------------------------------------
(* The LRUCache store *)

Entry(k, v) == [key |-> k, value |-> v, age |-> 0]
isStale(e) == e.age > Ttl
KeysOf(c) == {c[i].key : i \in DOMAIN c}
Without(c, k) == SelectSeq(c, LAMBDA e : e.key # k)
EntryOf(c, k) == c[CHOOSE i \in DOMAIN c : c[i].key = k]

\* as if a hit left the age of the entry as it was
LruGet_KeepsAge(c, k) ==
  IF k \notin KeysOf(c)
  THEN [cache |-> c, value |-> Undefined]
  ELSE LET e == EntryOf(c, k) IN
       IF isStale(e)
       THEN [cache |-> Without(c, k),
             value |-> IF AllowStale THEN e.value ELSE Undefined]
       ELSE [cache |-> Append(Without(c, k), e), value |-> e.value]

\* as if the ttl were never looked at
LruGet_IgnoresTtl(c, k) ==
  IF k \notin KeysOf(c)
  THEN [cache |-> c, value |-> Undefined]
  ELSE [cache |-> Append(Without(c, k), EntryOf(c, k)), value |-> EntryOf(c, k).value]

\* cache.get(key): a stale entry is deleted and not returned; a fresh one becomes
\* the most recently used and its age restarts
LruGet(c, k) ==
  LET UpdateAgeOnGet == TRUE
  IN
  IF k \notin KeysOf(c)
  THEN [cache |-> c, value |-> Undefined]
  ELSE LET e == EntryOf(c, k) IN
       IF isStale(e)
       THEN [cache |-> Without(c, k),
             value |-> IF AllowStale THEN e.value ELSE Undefined]
       ELSE [cache |-> Append(Without(c, k),
                              [e EXCEPT !.age = IF UpdateAgeOnGet THEN 0 ELSE @]),
             value |-> e.value]

\* as if a key already held kept its first value
LruSet_KeepsFirst(c, k, v) ==
  IF k \in KeysOf(c)
  THEN c
  ELSE IF Len(c) >= CacheMax
       THEN Append(Tail(c), Entry(k, v))
       ELSE Append(c, Entry(k, v))

\* cache.set(key, value): overwrites, or evicts the least recently used entry when full
LruSet(c, k, v) ==
  IF k \in KeysOf(c)
  THEN Append(Without(c, k), Entry(k, v))
  ELSE IF Len(c) >= CacheMax
       THEN Append(Tail(c), Entry(k, v))
       ELSE Append(c, Entry(k, v))

\* as if every delete call were counted, whatever it returned
LruDeleteAll_CountsCalls(c, ks) ==
  [cache |-> SelectSeq(c, LAMBDA e : e.key \notin ks),
   count |-> Cardinality(ks)]

\* cache.delete(key) over a set of keys: the store left and how many calls returned true
LruDeleteAll(c, ks) ==
  [cache |-> SelectSeq(c, LAMBDA e : e.key \notin ks),
   count |-> Cardinality(ks \cap KeysOf(c))]

----------------------------------------------------------------------------
(* QueryCache *)

ZeroStats == [hits |-> 0, misses |-> 0, sets |-> 0, invalidations |-> 0]
EmptyMap == [t \in {} |-> {}]

get(c, st, sql, bindings, dialect) ==
  LET key == generateCacheKey(sql, bindings, dialect)
      r == LruGet(c, key)
  IN IF r.value # Undefined
     THEN [cache |-> r.cache, stats |-> [st EXCEPT !.hits = @ + 1], value |-> r.value]
     ELSE [cache |-> r.cache, stats |-> [st EXCEPT !.misses = @ + 1], value |-> Null]

set(c, tm, st, sql, bindings, value, dialect, tables) ==
  LET \* this.tableMap after the key was added to the set of every table of `tables`
      Register(m, key, ts) ==
        [t \in DOMAIN m \cup ts |->
           IF t \in ts
           THEN (IF t \in DOMAIN m THEN m[t] ELSE {}) \cup {key}
           ELSE m[t]]
  IN
  IF ~Truthy(value)
  THEN [cache |-> c, tableMap |-> tm, stats |-> st, ok |-> FALSE]
  ELSE LET key == generateCacheKey(sql, bindings, dialect)
       IN [cache |-> LruSet(c, key, value),
           tableMap |-> Register(tm, key, tables),
           stats |-> [st EXCEPT !.sets = @ + 1],
           ok |-> TRUE]

RECURSIVE InvalidateLoop(_, _, _, _)
InvalidateLoop(tableList, c, tm, invalidatedCount) ==
  IF tableList = <<>>
  THEN [cache |-> c, tableMap |-> tm, count |-> invalidatedCount]
  ELSE LET table == Head(tableList) IN
       IF table \in DOMAIN tm
       THEN LET d == LruDeleteAll(c, tm[table])
            IN InvalidateLoop(Tail(tableList), d.cache,
                              [t \in DOMAIN tm \ {table} |-> tm[t]],
                              invalidatedCount + d.count)
       ELSE InvalidateLoop(Tail(tableList), c, tm, invalidatedCount)

TableArray(s) == [kind |-> "array", list |-> s]

\* as if any invalidation emptied the whole cache
invalidateByTables_ClearsAll(c, tm, st, tables) ==
  IF tables.kind = "null"
  THEN [cache |-> c, tableMap |-> tm, stats |-> st, count |-> 0]
  ELSE [cache |-> <<>>, tableMap |-> EmptyMap,
        stats |-> [st EXCEPT !.invalidations = @ + Len(c)], count |-> Len(c)]

invalidateByTables(c, tm, st, tables) ==
  IF tables.kind = "null"
  THEN [cache |-> c, tableMap |-> tm, stats |-> st, count |-> 0]
  ELSE LET r == InvalidateLoop(tables.list, c, tm, 0)
       IN [cache |-> r.cache, tableMap |-> r.tableMap,
           stats |-> [st EXCEPT !.invalidations = @ + r.count],
           count |-> r.count]

getStats ==
  LET total == stats.hits + stats.misses
  IN [hits |-> stats.hits, misses |-> stats.misses, sets |-> stats.sets,
      invalidations |-> stats.invalidations, total |-> total,
      size |-> Len(cache), maxSize |-> CacheMax]

----------------------------------------------------------------------------
(* Calls on the cache object *)

NoCall == [op |-> "none", value |-> Null, ok |-> FALSE, count |-> 0]

Calls == stats.hits + stats.misses + stats.sets

CallGet(q) ==
  /\ Calls < MaxCalls
  /\ LET r == get(cache, stats, q.sql, q.bindings, Dialect) IN
     /\ cache' = r.cache
     /\ stats' = r.stats
     /\ ret' = [NoCall EXCEPT !.op = "get", !.value = r.value]
  /\ UNCHANGED <<tableMap, db, query, acked, issued>>
  /\ UNCHANGED otherVars

CallSet(q, value, tables) ==
  /\ Calls < MaxCalls
  /\ LET r == set(cache, tableMap, stats, q.sql, q.bindings, value, Dialect, tables) IN
     /\ cache' = r.cache
     /\ tableMap' = r.tableMap
     /\ stats' = r.stats
     /\ ret' = [NoCall EXCEPT !.op = "set", !.ok = r.ok]
  /\ UNCHANGED <<db, query, acked, issued>>
  /\ UNCHANGED otherVars

CallInvalidate(tables) ==
  /\ LET r == invalidateByTables(cache, tableMap, stats, tables) IN
     /\ cache' = r.cache
     /\ tableMap' = r.tableMap
     /\ stats' = r.stats
     /\ ret' = [NoCall EXCEPT !.op = "invalidate", !.count = r.count]
  /\ UNCHANGED <<db, query, acked, issued>>
  /\ UNCHANGED otherVars

clear ==
  /\ cache' = <<>>
  /\ tableMap' = EmptyMap
  /\ stats' = ZeroStats
  /\ ret' = [NoCall EXCEPT !.op = "clear"]
  /\ UNCHANGED <<db, query, acked, issued>>
  /\ UNCHANGED otherVars

\* time passes: every entry grows older; past Ttl an entry is stale
Tick ==
  /\ \E i \in DOMAIN cache : ~isStale(cache[i])
  /\ cache' = [i \in DOMAIN cache |->
                 [cache[i] EXCEPT !.age = IF @ > Ttl THEN @ ELSE @ + 1]]
  /\ UNCHANGED <<tableMap, stats, ret, db, query, acked, issued>>
  /\ UNCHANGED otherVars

----------------------------------------------------------------------------
(* extractTablesFromQuery: the word that follows FROM, JOIN, INTO, UPDATE or TABLE *)

extractTablesFromQuery(sql) ==
  LET TableKeywords == {"FROM", "JOIN", "INTO", "UPDATE", "TABLE"}
      \* the tokens [\w\.]+ does not match
      Punctuation == {"*", "=", "?", "(", ")", ","}
      tableNameOf(tok) ==
        LET \* the segments of the dotted tokens
            Dotted == [k \in {"users.id", "orders.user_id"} |->
                         IF k = "users.id" THEN <<"users", "id">> ELSE <<"orders", "user_id">>]
            \* toLowerCase on the tokens that are not lower case already
            toLowerCase(w) ==
              IF w = "IF" THEN "if" ELSE IF w = "EXISTS" THEN "exists" ELSE w
        IN
        toLowerCase(IF tok \in DOMAIN Dotted THEN Dotted[tok][2] ELSE tok)
  IN
  {tableNameOf(sql[i + 1]) :
     i \in {j \in 1..(Len(sql) - 1) :
              sql[j] \in TableKeywords /\ sql[j + 1] \notin Punctuation}}

\* Array.from(tables)
RECURSIVE ArrayFrom(_)
ArrayFrom(S) ==
  IF S = {} THEN <<>>
  ELSE LET x == CHOOSE y \in S : TRUE IN <<x>> \o ArrayFrom(S \ {x})

----------------------------------------------------------------------------
(* extractTablesFromQuery on hand-written text, character by character.  A   *)
(* text is a sequence of one-character strings; the backtick is written      *)
(* "BACKTICK".                                                               *)

UpperCase == <<"A", "B", "C", "D", "E", "F", "I", "J", "L", "M", "N", "O", "P", "R", "S", "T", "U">>
LowerCase == <<"a", "b", "c", "d", "e", "f", "i", "j", "l", "m", "n", "o", "p", "r", "s", "t", "u">>
\* \s
Whitespace == {" "}

\* String.prototype.toLowerCase, one character
LowerChar(c) ==
  IF c \in Range(UpperCase)
  THEN LowerCase[CHOOSE i \in DOMAIN UpperCase : UpperCase[i] = c]
  ELSE c
LowerChars(text) == [i \in DOMAIN text |-> LowerChar(text[i])]

RECURSIVE RunEnd(_, _, _)
\* the first position at or after p whose character is not in S
RunEnd(text, p, S) ==
  IF p > Len(text) \/ text[p] \notin S THEN p ELSE RunEnd(text, p + 1, S)

\* whether word, whatever its case, stands at p
StandsAt(text, p, word) ==
  /\ p + Len(word) - 1 <= Len(text)
  /\ \A i \in DOMAIN word : LowerChar(text[p + i - 1]) = LowerChar(word[i])

\* new RegExp(keyword + '\\s+([\\w\\.]+)', 'gi') tried at position p
MatchAt(text, p, keyword) ==
  LET \* \w
      WordChars == Range(UpperCase) \cup Range(LowerCase) \cup {"_", "1"}
  IN
  LET q == p + Len(keyword)
      r == RunEnd(text, q, Whitespace)
      e == RunEnd(text, r, WordChars \cup {"."})
  IN [ok |-> StandsAt(text, p, keyword) /\ r > q /\ e > r, from |-> r, next |-> e]

RECURSIVE Captures(_, _, _)
\* match[1] of the successive regex.exec(sql) calls, each starting at lastIndex
Captures(text, keyword, p) ==
  IF p > Len(text) THEN <<>>
  ELSE LET m == MatchAt(text, p, keyword) IN
       IF m.ok
       THEN <<SubSeq(text, m.from, m.next - 1)>> \o Captures(text, keyword, m.next)
       ELSE Captures(text, keyword, p + 1)

RECURSIVE Trim(_)
\* .trim()
Trim(name) ==
  IF name = <<>> THEN name
  ELSE IF Head(name) \in Whitespace THEN Trim(Tail(name))
  ELSE IF name[Len(name)] \in Whitespace THEN Trim(SubSeq(name, 1, Len(name) - 1))
  ELSE name

NoExtract ==
  [given |-> FALSE, called |-> FALSE, sql |-> <<>>, names |-> {}, forms |-> {}, tables |-> {}]

\* a statement is written by hand; names are the tables it refers to and forms the
\* ways it writes them
WriteStatement(t) ==
  /\ ~ext.given
  /\ ext' = [NoExtract EXCEPT !.given = TRUE, !.sql = t.sql, !.names = t.names,
                              !.forms = t.forms]
  /\ UNCHANGED <<cacheVars, fp, ir, call, trx, boot, probe, client, qry>>

\* QueryCache.extractTablesFromQuery is called on it
ExtractTables ==
  LET \* QueryCache.extractTablesFromQuery(sql) on a text given character by character
      extractTablesFromText(text) ==
        LET \* the body of the while loop: the name added for one match, <<>> when none is
            TableNameOf(capture) ==
              LET \* .replace(/[`"'[\]]/g, '')
                  StripQuotes(name) ==
                    LET \* [`"'[\]]
                        QuoteChars == {"BACKTICK", "DQUOTE", "'", "[", "]"}
                    IN
                                       SelectSeq(name, LAMBDA c : c \notin QuoteChars)
                  \* .split(/\s+AS\s+/i)[0]
                  BeforeAs(name) ==
                    LET \* whether /\s+AS\s+/i matches from p
                        AsAt(n, p) ==
                          LET r == RunEnd(n, p, Whitespace) IN
                          /\ r > p
                          /\ StandsAt(n, r, <<"A", "S">>)
                          /\ r + 2 <= Len(n)
                          /\ n[r + 2] \in Whitespace
                    IN
                    IF \E p \in DOMAIN name : AsAt(name, p)
                    THEN SubSeq(name, 1, (CHOOSE p \in DOMAIN name :
                                            AsAt(name, p) /\ \A q \in 1..(p - 1) : ~AsAt(name, q)) - 1)
                    ELSE name
                  \* tableName.split('.')[1] when the name includes a dot
                  SecondSegment(name) ==
                    IF "." \notin Range(name) THEN name
                    ELSE LET d == CHOOSE p \in DOMAIN name : name[p] = "." /\ \A q \in 1..(p - 1) : name[q] # "."
                             e == RunEnd(name, d + 1, Range(name) \ {"."})
                         IN SubSeq(name, d + 1, e - 1)
              IN
                                    LowerChars(SecondSegment(Trim(BeforeAs(StripQuotes(capture)))))
            \* the five patterns, in the order of tableKeywords
            KeywordPatterns ==
              << <<"F", "R", "O", "M">>, <<"J", "O", "I", "N">>, <<"I", "N", "T", "O">>,
                 <<"U", "P", "D", "A", "T", "E">>, <<"T", "A", "B", "L", "E">> >>
        IN
        {TableNameOf(c) :
           c \in UNION {Range(Captures(text, KeywordPatterns[k], 1)) : k \in DOMAIN KeywordPatterns}}
          \ {<<>>}
  IN
  /\ ext.given
  /\ ext' = [ext EXCEPT !.called = TRUE, !.tables = extractTablesFromText(ext.sql)]
  /\ UNCHANGED <<cacheVars, fp, ir, call, trx, boot, probe, client, qry>>

----------------------------------------------------------------------------
(* The statement path: 'query' handler, Client.query, 'query:response' handler *)

Procs == {"p1", "p2", "p3"}
Idle == [pc |-> "idle", stmt |-> SelUsers, cachedResult |-> Undefined,
         response |-> Undefined, executed |-> FALSE, call |-> "none"]

\* a builder call creates the query object
Issue(p, s) ==
  /\ query[p].pc \in {"idle", "done", "failed"}
  /\ issued < MaxStmts
  /\ issued' = issued + 1
  /\ query' = [query EXCEPT ![p] = [Idle EXCEPT !.pc = "query", !.stmt = s]]
  /\ UNCHANGED <<cache, tableMap, stats, ret, db, acked>>
  /\ UNCHANGED otherVars

\* vesperdb.on('query', ...)
OnQuery(p) ==
  LET q == query[p] IN
  /\ q.pc = "query"
  /\ IF q.stmt.method = "select"
     THEN LET r == get(cache, stats, q.stmt.sql, q.stmt.bindings, Dialect) IN
          /\ cache' = r.cache
          /\ stats' = r.stats
          /\ ret' = [NoCall EXCEPT !.op = "get", !.value = r.value]
          /\ query' = [query EXCEPT ![p].pc = "execute", ![p].call = "get",
                         ![p].cachedResult = IF Truthy(r.value) THEN r.value ELSE Undefined]
     ELSE /\ query' = [query EXCEPT ![p].pc = "execute"]
          /\ UNCHANGED <<cache, stats, ret>>
  /\ UNCHANGED <<tableMap, db, acked, issued>>
  /\ UNCHANGED otherVars

\* what executeQuery resolves with, and the database it leaves
Written(q) == [t \in Tables |-> IF t \in q.stmt.writes THEN db[t] + 1 ELSE db[t]]
Response(q) ==
  IF q.stmt.method = "select"
  THEN Rows([t \in q.stmt.reads |-> db[t]])
  ELSE Rows([t \in q.stmt.writes |-> db[t] + 1])

\* Client.query: acquireConnection, executeQuery, releaseConnection
ClientQuery(p) ==
  LET q == query[p] IN
  /\ q.pc = "execute"
  /\ db' = Written(q)
  /\ query' = [query EXCEPT ![p].pc = "response", ![p].executed = TRUE,
                            ![p].response = Response(q)]
  /\ UNCHANGED <<cache, tableMap, stats, ret, acked, issued>>
  /\ UNCHANGED otherVars

\* Client.query when executeQuery rejects: the error reaches the caller
ClientQueryFails(p) ==
  LET q == query[p] IN
  /\ q.pc = "execute"
  /\ query' = [query EXCEPT ![p].pc = "failed", ![p].executed = TRUE]
  /\ UNCHANGED <<cache, tableMap, stats, ret, db, acked, issued>>
  /\ UNCHANGED otherVars

\* vesperdb.on('query:response', ...)
OnQueryResponse(p) ==
  LET q == query[p]
      tables == extractTablesFromQuery(q.stmt.sql)
  IN
  /\ q.pc = "response"
  /\ acked' = [t \in Tables |->
                 IF t \in q.stmt.writes /\ q.response.rows[t] > acked[t]
                 THEN q.response.rows[t] ELSE acked[t]]
  /\ IF Truthy(q.cachedResult)
     THEN /\ query' = [query EXCEPT ![p].pc = "done"]
          /\ UNCHANGED <<cache, tableMap, stats, ret>>
     ELSE IF q.stmt.method = "select"
     THEN LET r == set(cache, tableMap, stats, q.stmt.sql, q.stmt.bindings,
                       q.response, Dialect, tables) IN
          /\ cache' = r.cache
          /\ tableMap' = r.tableMap
          /\ stats' = r.stats
          /\ ret' = [NoCall EXCEPT !.op = "set", !.ok = r.ok]
          /\ query' = [query EXCEPT ![p].pc = "done", ![p].call = "set"]
     ELSE IF q.stmt.method \in {"insert", "update", "delete"}
     THEN LET r == invalidateByTables(cache, tableMap, stats,
                                      TableArray(ArrayFrom(tables))) IN
          /\ cache' = r.cache
          /\ tableMap' = r.tableMap
          /\ stats' = r.stats
          /\ ret' = [NoCall EXCEPT !.op = "invalidate", !.count = r.count]
          /\ query' = [query EXCEPT ![p].pc = "done", ![p].call = "invalidate"]
     ELSE /\ query' = [query EXCEPT ![p].pc = "done"]
          /\ UNCHANGED <<cache, tableMap, stats, ret>>
  /\ UNCHANGED <<db, issued>>
  /\ UNCHANGED otherVars

----------------------------------------------------------------------------
(* generateCacheKey called on its own *)

\* the longest bindings list fingerprinted
MaxBindings == 2

BindingLists ==
  LET \* JavaScript scalars, each named by its literal: a number, a string, null, undefined, NaN
      Scalars == {"1", "'1'", "null", "undefined", "NaN"}
  IN
                UNION {[1..n -> Scalars] : n \in 0..MaxBindings}
SqlTexts == {SelUsers.sql, SelOrders.sql}
Dialects == {"sqlite", "pg"}

\* fp keeps the last two calls
GenerateCacheKey(sql, bindings, dialect) ==
  /\ LET c == [sql |-> sql, bindings |-> bindings, dialect |-> dialect,
               key |-> generateCacheKey(sql, bindings, dialect)] IN
     fp' = IF Len(fp) < 2 THEN Append(fp, c) ELSE <<fp[2], c>>
  /\ UNCHANGED <<cacheVars, ir, call, trx, boot, restVars>>

----------------------------------------------------------------------------
(* Rendered text and compile results *)

\* the most predicates in one WHERE or HAVING list
MaxPreds == 2
\* the most rows in one insert
MaxRows == 2
\* the most joins in one select
MaxJoins == 1
\* the most columns in one table definition
MaxColumns == 1

\* `$n`, the parameter reference of the pg compiler
Dollar(n) == "$" \o ToString(n)
\* what a dialect's query compiler writes for its n-th parameter
Placeholder(d, n) == IF d = "pg" THEN Dollar(n) ELSE "?"

RECURSIVE JoinWith(_, _)
\* Array.prototype.join over rendered parts; a blank separator is the empty token list
JoinWith(parts, sep) ==
  IF parts = <<>> THEN <<>>
  ELSE IF Len(parts) = 1 THEN parts[1]
  ELSE parts[1] \o sep \o JoinWith(Tail(parts), sep)

\* a list of names, comma separated
NameList(names) == JoinWith([i \in DOMAIN names |-> <<names[i]>>], <<",">>)

\* a compile call that returned, and one that threw
Returned(sql, bindings, warnings) ==
  [thrown |-> FALSE, error |-> "", sql |-> sql, bindings |-> bindings, warnings |-> warnings]
Thrown(message) ==
  [thrown |-> TRUE, error |-> message, sql |-> <<>>, bindings |-> <<>>, warnings |-> <<>>]

----------------------------------------------------------------------------
(* The query compilers of sqlite and pg *)

\* as if every later predicate were joined with AND
PredClauses_AllAnd(d, preds, first) ==
  JoinWith([i \in DOMAIN preds |->
              (IF i = 1 THEN <<>> ELSE <<"AND">>)
                \o <<preds[i].column, preds[i].operator, Placeholder(d, first + i - 1)>>],
           <<>>)

\* as if every clause numbered its parameters from 1
PredClauses_Restarts(d, preds, first) ==
  JoinWith([i \in DOMAIN preds |->
              (IF i = 1 THEN <<>> ELSE <<preds[i].boolean>>)
                \o <<preds[i].column, preds[i].operator, Placeholder(d, i)>>],
           <<>>)

\* the loop over a predicate list: `column operator ph`, from the second clause on
\* led by the predicate's boolean; first is the number of the first parameter
PredClauses(d, preds, first) ==
  JoinWith([i \in DOMAIN preds |->
              (IF i = 1 THEN <<>> ELSE <<preds[i].boolean>>)
                \o <<preds[i].column, preds[i].operator, Placeholder(d, first + i - 1)>>],
           <<>>)
\* params.push(value), once per predicate
PredValues(preds) == [i \in DOMAIN preds |-> preds[i].value]

\* as if sqlite rendered right and full joins under their own kind
JoinClause_KeepsKind(type) ==
  CASE type = "left" -> <<"LEFT", "JOIN">>
    [] type = "right" -> <<"RIGHT", "JOIN">>
    [] type = "full" -> <<"FULL", "JOIN">>
    [] OTHER -> <<"JOIN">>
\* the switch over join.type of the sqlite compiler
JoinClause(type) ==
  IF type \in {"left", "right", "full"} THEN <<"LEFT", "JOIN">> ELSE <<"JOIN">>
\* the switch over join.type of the pg compiler
pg_JoinClause(type) ==
  CASE type = "left" -> <<"LEFT", "JOIN">>
    [] type = "right" -> <<"RIGHT", "JOIN">>
    [] type = "full" -> <<"FULL", "JOIN">>
    [] OTHER -> <<"JOIN">>

\* the clauses both compilers render alike, up to the parameter style
SelectHead(d, tableName, statements) ==
  LET \* order.direction.toUpperCase()
      toUpperCase(direction) ==
        CASE direction = "asc" -> "ASC" [] direction = "desc" -> "DESC" [] OTHER -> direction
  IN
  <<"SELECT">>
    \o (IF Len(statements.select) > 0 THEN NameList(statements.select) ELSE <<"*">>)
    \o <<"FROM", tableName>>
    \o JoinWith([i \in DOMAIN statements.join |->
                   LET j == statements.join[i] IN
                   (IF d = "pg" THEN pg_JoinClause(j.type) ELSE JoinClause(j.type))
                     \o <<j.table, "ON", j.first, j.operator, j.second>>], <<>>)
    \o (IF Len(statements.where) > 0
        THEN <<"WHERE">> \o PredClauses(d, statements.where, 1) ELSE <<>>)
    \o (IF Len(statements.groupBy) > 0
        THEN <<"GROUP", "BY">> \o NameList(statements.groupBy) ELSE <<>>)
    \o (IF Len(statements.having) > 0
        THEN <<"HAVING">> \o PredClauses(d, statements.having, Len(statements.where) + 1)
        ELSE <<>>)
    \o (IF Len(statements.orderBy) > 0
        THEN <<"ORDER", "BY">>
               \o JoinWith([i \in DOMAIN statements.orderBy |->
                              <<statements.orderBy[i].column,
                                toUpperCase(statements.orderBy[i].direction)>>], <<",">>)
        ELSE <<>>)

\* v !== null && v !== undefined
IsSet(v) == v \notin {"null", "undefined"}

\* sqlite: OFFSET is rendered inside the LIMIT branch
compileSelect(tableName, statements) ==
  LET \* console.warn of the sqlite compiler: one line per right or full join
      JoinWarnings(joins) ==
        LET downgraded == SelectSeq(joins, LAMBDA j : j.type \in {"right", "full"}) IN
        [i \in DOMAIN downgraded |-> <<"sqlite", downgraded[i].type, "LEFT JOIN">>]
  IN
  LET lim == IsSet(statements.limit)
      off == lim /\ IsSet(statements.offset)
  IN Returned(
       SelectHead("sqlite", tableName, statements)
         \o (IF lim THEN <<"LIMIT", "?">> ELSE <<>>)
         \o (IF off THEN <<"OFFSET", "?">> ELSE <<>>),
       PredValues(statements.where) \o PredValues(statements.having)
         \o (IF lim THEN <<statements.limit>> ELSE <<>>)
         \o (IF off THEN <<statements.offset>> ELSE <<>>),
       JoinWarnings(statements.join))

\* as if the offset were pushed before the limit
pg_compileSelect_OffsetFirst(tableName, statements) ==
  LET n == Len(statements.where) + Len(statements.having)
      lim == IsSet(statements.limit)
      off == IsSet(statements.offset)
  IN Returned(
       SelectHead("pg", tableName, statements)
         \o (IF lim THEN <<"LIMIT", Dollar(n + 1)>> ELSE <<>>)
         \o (IF off THEN <<"OFFSET", Dollar(n + (IF lim THEN 2 ELSE 1))>> ELSE <<>>),
       PredValues(statements.where) \o PredValues(statements.having)
         \o (IF off THEN <<statements.offset>> ELSE <<>>)
         \o (IF lim THEN <<statements.limit>> ELSE <<>>),
       <<>>)

\* pg: LIMIT and OFFSET are rendered independently, numbered by paramIndex
pg_compileSelect(tableName, statements) ==
  LET n == Len(statements.where) + Len(statements.having)
      lim == IsSet(statements.limit)
      off == IsSet(statements.offset)
  IN Returned(
       SelectHead("pg", tableName, statements)
         \o (IF lim THEN <<"LIMIT", Dollar(n + 1)>> ELSE <<>>)
         \o (IF off THEN <<"OFFSET", Dollar(n + (IF lim THEN 2 ELSE 1))>> ELSE <<>>),
       PredValues(statements.where) \o PredValues(statements.having)
         \o (IF lim THEN <<statements.limit>> ELSE <<>>)
         \o (IF off THEN <<statements.offset>> ELSE <<>>),
       <<>>)

\* Object.keys(row) and row[column] of a row object, kept as its key/value pairs in order
Keys(row) == [i \in DOMAIN row |-> row[i].k]
Field(row, column) ==
  IF \E i \in DOMAIN row : row[i].k = column
  THEN row[CHOOSE i \in DOMAIN row : row[i].k = column].v
  ELSE "undefined"

\* Array.isArray(data) ? data : [data]
RowsOf(data) == IF data.isArray THEN data.rows ELSE <<data.row>>

\* as if the values were pushed column by column
InsertValues_ColumnMajor(d, rows, columns) ==
  LET m == Len(columns) IN
  [sql |-> JoinWith([i \in DOMAIN rows |->
                       <<"(">> \o JoinWith([j \in DOMAIN columns |->
                                              <<Placeholder(d, (i - 1) * m + j)>>], <<",">>)
                               \o <<")">>], <<",">>),
   params |-> JoinWith([j \in DOMAIN columns |->
                          [i \in DOMAIN rows |-> Field(rows[i], columns[j])]], <<>>)]

\* the nested loops of compileInsert: row by row, column by column
InsertValues(d, rows, columns) ==
  LET m == Len(columns) IN
  [sql |-> JoinWith([i \in DOMAIN rows |->
                       <<"(">> \o JoinWith([j \in DOMAIN columns |->
                                              <<Placeholder(d, (i - 1) * m + j)>>], <<",">>)
                               \o <<")">>], <<",">>),
   params |-> JoinWith([i \in DOMAIN rows |->
                          [j \in DOMAIN columns |-> Field(rows[i], columns[j])]], <<>>)]

compileInsert(tableName, data) ==
  LET rows == RowsOf(data) IN
  IF Len(rows) = 0 THEN Thrown("Aucune donnee a inserer")
  ELSE LET columns == Keys(rows[1])
           vals == InsertValues("sqlite", rows, columns)
       IN Returned(<<"INSERT", "INTO", tableName, "(">> \o NameList(columns)
                     \o <<")", "VALUES">> \o vals.sql,
                   vals.params, <<>>)

\* as if an empty row set were let through
pg_compileInsert_EmptyAllowed(tableName, data) ==
  LET rows == RowsOf(data) IN
  IF Len(rows) = 0 THEN Returned(<<"INSERT", "INTO", tableName>>, <<>>, <<>>)
  ELSE LET columns == Keys(rows[1])
           vals == InsertValues("pg", rows, columns)
       IN Returned(<<"INSERT", "INTO", tableName, "(">> \o NameList(columns)
                     \o <<")", "VALUES">> \o vals.sql \o <<"RETURNING", "id">>,
                   vals.params, <<>>)

pg_compileInsert(tableName, data) ==
  LET rows == RowsOf(data) IN
  IF Len(rows) = 0 THEN Thrown("Aucune donnee a inserer")
  ELSE LET columns == Keys(rows[1])
           vals == InsertValues("pg", rows, columns)
       IN Returned(<<"INSERT", "INTO", tableName, "(">> \o NameList(columns)
                     \o <<")", "VALUES">> \o vals.sql \o <<"RETURNING", "id">>,
                   vals.params, <<>>)

\* as if the WHERE values were pushed before the SET values
UpdateBody_WhereFirst(d, tableName, data, whereStatements) ==
  LET columns == Keys(data.row) IN
  Returned(<<"UPDATE", tableName, "SET">>
             \o JoinWith([i \in DOMAIN columns |->
                            <<columns[i], "=", Placeholder(d, i)>>], <<",">>)
             \o (IF Len(whereStatements) > 0
                 THEN <<"WHERE">> \o PredClauses(d, whereStatements, Len(columns) + 1)
                 ELSE <<>>),
           PredValues(whereStatements)
             \o [i \in DOMAIN columns |-> Field(data.row, columns[i])],
           <<>>)

\* the SET clauses and, after them, the WHERE clauses of compileUpdate
UpdateBody(d, tableName, data, whereStatements) ==
  LET columns == Keys(data.row) IN
  Returned(<<"UPDATE", tableName, "SET">>
             \o JoinWith([i \in DOMAIN columns |->
                            <<columns[i], "=", Placeholder(d, i)>>], <<",">>)
             \o (IF Len(whereStatements) > 0
                 THEN <<"WHERE">> \o PredClauses(d, whereStatements, Len(columns) + 1)
                 ELSE <<>>),
           [i \in DOMAIN columns |-> Field(data.row, columns[i])]
             \o PredValues(whereStatements),
           <<>>)

compileUpdate(tableName, data, whereStatements) ==
  IF data.missing \/ Len(data.row) = 0 THEN Thrown("Aucune donnee a mettre a jour")
  ELSE UpdateBody("sqlite", tableName, data, whereStatements)

pg_compileUpdate(tableName, data, whereStatements) ==
  IF data.missing \/ Len(data.row) = 0 THEN Thrown("Aucune donnee a mettre a jour")
  ELSE UpdateBody("pg", tableName, data, whereStatements)

compileDelete(tableName, whereStatements) ==
  Returned(<<"DELETE", "FROM", tableName>>
             \o (IF Len(whereStatements) > 0
                 THEN <<"WHERE">> \o PredClauses("sqlite", whereStatements, 1) ELSE <<>>),
           PredValues(whereStatements), <<>>)

pg_compileDelete(tableName, whereStatements) ==
  Returned(<<"DELETE", "FROM", tableName>>
             \o (IF Len(whereStatements) > 0
                 THEN <<"WHERE">> \o PredClauses("pg", whereStatements, 1) ELSE <<>>),
           PredValues(whereStatements), <<>>)

----------------------------------------------------------------------------
(* The schema compilers *)

\* the keys of every dialect's DATA_TYPES table
KnownTypes == {"integer", "bigInteger", "text", "string", "float", "decimal", "boolean",
               "date", "datetime", "timestamp", "binary", "json", "uuid"}

\* an argument, or the default of the parameter when it is undefined
OrDefault(v, d) == IF v = "undefined" THEN d ELSE v

\* the DEFAULT part every compileColumn ends with
DefaultClause(column) ==
  LET \* typeof value === 'string', for scalars named by their literal
      StringLiterals == {"'1'", "'x'"}
  IN
  IF column.defaultValue = "undefined" THEN <<>>
  ELSE IF column.defaultValue \in StringLiterals THEN <<"DEFAULT", column.defaultValue>>
  ELSE IF column.defaultValue = "null" THEN <<"DEFAULT", "NULL">>
  ELSE <<"DEFAULT", column.defaultValue>>

\* sqlite: a type missing from DATA_TYPES falls to `|| 'TEXT'`
compileColumn(column) ==
  LET \* DATA_TYPES of the sqlite schema compiler
      DATA_TYPES(type) ==
        CASE type \in {"integer", "bigInteger", "boolean"} -> <<"INTEGER">>
          [] type \in {"float", "decimal"} -> <<"REAL">>
          [] type = "binary" -> <<"BLOB">>
          [] OTHER -> <<"TEXT">>
  IN
  <<column.name>>
    \o (IF column.type \in KnownTypes THEN DATA_TYPES(column.type) ELSE <<"TEXT">>)
    \o (IF ~column.nullable THEN <<"NOT", "NULL">> ELSE <<>>)
    \o DefaultClause(column)

\* pg: autoIncrement overwrites parts[1] with SERIAL
pg_compileColumn(column) ==
  LET \* DATA_TYPES of the pg schema compiler, its two functions applied
      pg_DATA_TYPES(col) ==
        CASE col.type = "integer" -> <<"INTEGER">>
          [] col.type = "bigInteger" -> <<"BIGINT">>
          [] col.type = "text" -> <<"TEXT">>
          [] col.type = "string" -> <<"VARCHAR", "(", OrDefault(col.length, "255"), ")">>
          [] col.type = "float" -> <<"FLOAT">>
          [] col.type = "decimal" ->
               <<"DECIMAL", "(", OrDefault(col.precision, "8"), ",",
                 OrDefault(col.scale, "2"), ")">>
          [] col.type = "boolean" -> <<"BOOLEAN">>
          [] col.type = "date" -> <<"DATE">>
          [] col.type \in {"datetime", "timestamp"} -> <<"TIMESTAMP">>
          [] col.type = "binary" -> <<"BYTEA">>
          [] col.type = "json" -> <<"JSONB">>
          [] col.type = "uuid" -> <<"UUID">>
  IN
  <<column.name>>
    \o (IF column.autoIncrement THEN <<"SERIAL">>
        ELSE IF column.type \in KnownTypes THEN pg_DATA_TYPES(column) ELSE <<"TEXT">>)
    \o (IF ~column.nullable THEN <<"NOT", "NULL">> ELSE <<>>)
    \o DefaultClause(column)

mysql_compileColumn(column) ==
  LET \* DATA_TYPES of the mysql schema compiler
      mysql_DATA_TYPES(col) ==
        CASE col.type = "integer" -> <<"INT">>
          [] col.type = "bigInteger" -> <<"BIGINT">>
          [] col.type = "text" -> <<"TEXT">>
          [] col.type = "string" -> <<"VARCHAR", "(", OrDefault(col.length, "255"), ")">>
          [] col.type = "float" -> <<"FLOAT">>
          [] col.type = "decimal" ->
               <<"DECIMAL", "(", OrDefault(col.precision, "8"), ",",
                 OrDefault(col.scale, "2"), ")">>
          [] col.type = "boolean" -> <<"TINYINT(1)">>
          [] col.type = "date" -> <<"DATE">>
          [] col.type = "datetime" -> <<"DATETIME">>
          [] col.type = "timestamp" -> <<"TIMESTAMP">>
          [] col.type = "binary" -> <<"BLOB">>
          [] col.type = "json" -> <<"JSON">>
          [] col.type = "uuid" -> <<"CHAR(36)">>
  IN
  <<column.name>>
    \o (IF column.type \in KnownTypes THEN mysql_DATA_TYPES(column) ELSE <<"VARCHAR(255)">>)
    \o (IF column.autoIncrement THEN <<"AUTO_INCREMENT">> ELSE <<>>)
    \o (IF ~column.nullable THEN <<"NOT", "NULL">> ELSE <<>>)
    \o DefaultClause(column)

mssql_compileColumn(column) ==
  LET \* DATA_TYPES of the mssql schema compiler
      mssql_DATA_TYPES(col) ==
        CASE col.type = "integer" -> <<"INT">>
          [] col.type = "bigInteger" -> <<"BIGINT">>
          [] col.type \in {"text", "json"} -> <<"NVARCHAR(MAX)">>
          [] col.type = "string" -> <<"NVARCHAR", "(", OrDefault(col.length, "255"), ")">>
          [] col.type = "float" -> <<"FLOAT">>
          [] col.type = "decimal" ->
               <<"DECIMAL", "(", OrDefault(col.precision, "8"), ",",
                 OrDefault(col.scale, "2"), ")">>
          [] col.type = "boolean" -> <<"BIT">>
          [] col.type = "date" -> <<"DATE">>
          [] col.type \in {"datetime", "timestamp"} -> <<"DATETIME2">>
          [] col.type = "binary" -> <<"VARBINARY(MAX)">>
          [] col.type = "uuid" -> <<"UNIQUEIDENTIFIER">>
  IN
  <<column.name>>
    \o (IF column.type \in KnownTypes THEN mssql_DATA_TYPES(column) ELSE <<"NVARCHAR(255)">>)
    \o (IF column.autoIncrement THEN <<"IDENTITY(1,1)">> ELSE <<>>)
    \o (IF ~column.nullable THEN <<"NOT", "NULL">> ELSE <<"NULL">>)
    \o DefaultClause(column)

\* `name(a, b)` and `(a, b)`
Parens(names) == <<"(">> \o NameList(names) \o <<")">>
\* a generated constraint or index name: prefix, then the 0-based position
Numbered(prefix, i) == prefix \o ToString(i - 1)
\* a name between backticks, the backtick being a token of its own
Backticked(name) == <<"BACKTICK", name, "BACKTICK">>
\* idx.name || fallback
IndexName(idx, fallback) == IF idx.name = "undefined" THEN fallback ELSE idx.name

\* the FOREIGN KEY clause, with or without ON DELETE CASCADE
ForeignKey(fk, cascade) ==
  <<"FOREIGN", "KEY", "(", fk.column, ")", "REFERENCES", fk.referenceTable>>
    \o <<"(", fk.referenceColumn, ")">>
    \o (IF cascade THEN <<"ON", "DELETE", "CASCADE">> ELSE <<>>)

\* sqlite
compileCreateTable(tableName, columns, constraints) ==
  LET pk == constraints.primaryKey
      columnDefinitions ==
        [i \in DOMAIN columns |->
           compileColumn(columns[i])
             \o (IF Len(pk) = 1 /\ pk[1] = columns[i].name
                 THEN <<"PRIMARY", "KEY">>
                        \o (IF columns[i].autoIncrement THEN <<"AUTOINCREMENT">> ELSE <<>>)
                 ELSE <<>>)]
          \o (IF Len(pk) > 1 THEN << <<"PRIMARY", "KEY">> \o Parens(pk) >> ELSE <<>>)
          \o [i \in DOMAIN constraints.unique |->
                <<"UNIQUE">> \o Parens(constraints.unique[i])]
          \o [i \in DOMAIN constraints.foreignKeys |->
                ForeignKey(constraints.foreignKeys[i], TRUE)]
  IN Returned(<<"CREATE", "TABLE", tableName, "(">>
                \o JoinWith(columnDefinitions, <<",">>) \o <<")">>,
              <<>>, <<>>)

\* sqlite: the columns as compileAlterTable leaves them (column.nullable = true)
AlteredColumns(columns) ==
  [i \in DOMAIN columns |->
     IF ~columns[i].nullable /\ columns[i].defaultValue = "undefined"
     THEN [columns[i] EXCEPT !.nullable = TRUE] ELSE columns[i]]

\* sqlite
compileAlterTable(tableName, columns, constraints) ==
  LET forced == SelectSeq(columns,
                          LAMBDA c : ~c.nullable /\ c.defaultValue = "undefined")
      after == AlteredColumns(columns)
      alterStatements ==
        [i \in DOMAIN after |->
           <<"ALTER", "TABLE", tableName, "ADD", "COLUMN">> \o compileColumn(after[i])]
          \o [i \in DOMAIN constraints.index |->
                <<"CREATE", "INDEX", "IF", "NOT", "EXISTS",
                  IndexName(constraints.index[i], Numbered(tableName \o "_idx_", i)),
                  "ON", tableName>> \o Parens(constraints.index[i].columns)]
      warnings ==
        [i \in DOMAIN forced |-> <<"sqlite", "NOT NULL", forced[i].name>>]
          \o (IF \/ Len(constraints.primaryKey) > 0 \/ Len(constraints.unique) > 0
                 \/ Len(constraints.foreignKeys) > 0 \/ Len(constraints.index) > 0
              THEN << <<"sqlite", "constraints", tableName>> >> ELSE <<>>)
  IN IF Len(alterStatements) = 0 THEN Thrown("Aucune modification valide pour SQLite")
     ELSE Returned(JoinWith(alterStatements, <<";">>), <<>>, warnings)

pg_compileCreateTable(tableName, columns, constraints) ==
  LET allDefinitions ==
        [i \in DOMAIN columns |-> pg_compileColumn(columns[i])]
          \o (IF Len(constraints.primaryKey) > 0
              THEN << <<"PRIMARY", "KEY">> \o Parens(constraints.primaryKey) >> ELSE <<>>)
          \o [i \in DOMAIN constraints.unique |->
                <<"UNIQUE">> \o Parens(constraints.unique[i])]
          \o [i \in DOMAIN constraints.foreignKeys |->
                ForeignKey(constraints.foreignKeys[i], FALSE)]
  IN Returned(<<"CREATE", "TABLE", tableName, "(">>
                \o JoinWith(allDefinitions, <<",">>) \o <<")">>,
              <<>>, <<>>)

pg_compileAlterTable(tableName, columns, constraints) ==
  LET alterStatements ==
        [i \in DOMAIN columns |->
           <<"ALTER", "TABLE", tableName, "ADD", "COLUMN">> \o pg_compileColumn(columns[i])]
          \o (IF Len(constraints.primaryKey) > 0
              THEN << <<"ALTER", "TABLE", tableName, "ADD", "PRIMARY", "KEY">>
                        \o Parens(constraints.primaryKey) >>
              ELSE <<>>)
          \o [i \in DOMAIN constraints.unique |->
                <<"ALTER", "TABLE", tableName, "ADD", "CONSTRAINT",
                  Numbered(tableName \o "_unique_", i), "UNIQUE">>
                  \o Parens(constraints.unique[i])]
          \o [i \in DOMAIN constraints.foreignKeys |->
                <<"ALTER", "TABLE", tableName, "ADD", "CONSTRAINT",
                  Numbered(tableName \o "_fk_", i)>>
                  \o ForeignKey(constraints.foreignKeys[i], FALSE)]
          \o [i \in DOMAIN constraints.index |->
                <<"CREATE", "INDEX",
                  IndexName(constraints.index[i], Numbered(tableName \o "_idx_", i)),
                  "ON", tableName>> \o Parens(constraints.index[i].columns)]
  IN Returned(JoinWith(alterStatements, <<";">>), <<>>, <<>>)

mysql_compileCreateTable(tableName, columns, constraints) ==
  LET allDefinitions ==
        [i \in DOMAIN columns |-> mysql_compileColumn(columns[i])]
          \o (IF Len(constraints.primaryKey) > 0
              THEN << <<"PRIMARY", "KEY">> \o Parens(constraints.primaryKey) >> ELSE <<>>)
          \o [i \in DOMAIN constraints.unique |->
                <<"UNIQUE", "KEY">> \o Backticked(Numbered(tableName \o "_unique_", i))
                  \o Parens(constraints.unique[i])]
          \o [i \in DOMAIN constraints.foreignKeys |->
                <<"CONSTRAINT">> \o Backticked(Numbered(tableName \o "_fk_", i))
                  \o ForeignKey(constraints.foreignKeys[i], TRUE)]
  IN Returned(<<"CREATE", "TABLE", tableName, "(">>
                \o JoinWith(allDefinitions, <<",">>)
                \o <<")", "ENGINE=InnoDB", "DEFAULT", "CHARSET=utf8mb4",
                     "COLLATE=utf8mb4_unicode_ci">>,
              <<>>, <<>>)

mysql_compileAlterTable(tableName, columns, constraints) ==
  LET alterStatements ==
        [i \in DOMAIN columns |->
           <<"ALTER", "TABLE", tableName, "ADD", "COLUMN">>
             \o mysql_compileColumn(columns[i])]
          \o (IF Len(constraints.primaryKey) > 0
              THEN << <<"ALTER", "TABLE", tableName, "ADD", "PRIMARY", "KEY">>
                        \o Parens(constraints.primaryKey) >>
              ELSE <<>>)
          \o [i \in DOMAIN constraints.unique |->
                <<"ALTER", "TABLE", tableName, "ADD", "UNIQUE", "KEY">>
                  \o Backticked(Numbered(tableName \o "_unique_", i))
                  \o Parens(constraints.unique[i])]
          \o [i \in DOMAIN constraints.foreignKeys |->
                <<"ALTER", "TABLE", tableName, "ADD", "CONSTRAINT">>
                  \o Backticked(Numbered(tableName \o "_fk_", i))
                  \o ForeignKey(constraints.foreignKeys[i], TRUE)]
          \o [i \in DOMAIN constraints.index |->
                <<"CREATE", "INDEX">>
                  \o Backticked(IndexName(constraints.index[i],
                                          Numbered(tableName \o "_idx_", i)))
                  \o <<"ON", tableName>> \o Parens(constraints.index[i].columns)]
  IN Returned(JoinWith(alterStatements, <<";">>), <<>>, <<>>)

mssql_compileCreateTable(tableName, columns, constraints) ==
  LET allDefinitions ==
        [i \in DOMAIN columns |-> mssql_compileColumn(columns[i])]
          \o (IF Len(constraints.primaryKey) > 0
              THEN << <<"CONSTRAINT", "[PK_" \o tableName \o "]", "PRIMARY", "KEY">>
                        \o Parens(constraints.primaryKey) >>
              ELSE <<>>)
          \o [i \in DOMAIN constraints.unique |->
                <<"CONSTRAINT", "[" \o Numbered("UQ_" \o tableName \o "_", i) \o "]",
                  "UNIQUE">> \o Parens(constraints.unique[i])]
          \o [i \in DOMAIN constraints.foreignKeys |->
                <<"CONSTRAINT",
                  "[" \o Numbered("FK_" \o tableName \o "_"
                                    \o constraints.foreignKeys[i].column \o "_", i) \o "]">>
                  \o ForeignKey(constraints.foreignKeys[i], TRUE)]
  IN Returned(<<"CREATE", "TABLE", tableName, "(">>
                \o JoinWith(allDefinitions, <<",">>) \o <<")">>,
              <<>>, <<>>)

mssql_compileAlterTable(tableName, columns, constraints) ==
  LET alterStatements ==
        [i \in DOMAIN columns |->
           <<"ALTER", "TABLE", tableName, "ADD">> \o mssql_compileColumn(columns[i])]
          \o (IF Len(constraints.primaryKey) > 0
              THEN << <<"ALTER", "TABLE", tableName, "ADD", "CONSTRAINT",
                        "[PK_" \o tableName \o "]", "PRIMARY", "KEY">>
                        \o Parens(constraints.primaryKey) >>
              ELSE <<>>)
          \o [i \in DOMAIN constraints.unique |->
                <<"ALTER", "TABLE", tableName, "ADD", "CONSTRAINT",
                  "[" \o Numbered("UQ_" \o tableName \o "_", i) \o "]", "UNIQUE">>
                  \o Parens(constraints.unique[i])]
          \o [i \in DOMAIN constraints.foreignKeys |->
                <<"ALTER", "TABLE", tableName, "ADD", "CONSTRAINT",
                  "[" \o Numbered("FK_" \o tableName \o "_"
                                    \o constraints.foreignKeys[i].column \o "_", i) \o "]">>
                  \o ForeignKey(constraints.foreignKeys[i], TRUE)]
          \o [i \in DOMAIN constraints.index |->
                <<"CREATE", "INDEX",
                  "[" \o IndexName(constraints.index[i], Numbered("IX_" \o tableName \o "_", i))
                      \o "]",
                  "ON", tableName>> \o Parens(constraints.index[i].columns)]
  IN Returned(JoinWith(alterStatements, <<";">>), <<>>, <<>>)

----------------------------------------------------------------------------
(* The builders: a caller holds a statement spec and runs it *)

NoIr == [kind |-> "none"]
NoCompile == [fn |-> "none", given |-> NoIr, out |-> Returned(<<>>, <<>>, <<>>), sent |-> <<>>]

\* a builder is made and filled in: new QueryBuilder / TableBuilder and the calls on it;
\* a behaviour follows one builder
NewStatement(s) ==
  /\ ir.kind = "none"
  /\ ir' = s
  /\ call' = NoCompile
  /\ UNCHANGED <<cacheVars, fp, trx, boot, restVars>>

\* the compile result reaches client.query unless the compiler threw
Ran(fn, out) ==
  [fn |-> fn, given |-> ir, out |-> out,
   sent |-> IF out.thrown THEN <<>> ELSE <<[sql |-> out.sql, bindings |-> out.bindings]>>]

\* QueryBuilder.get: _toSQL, then client.query
QueryBuilderGet ==
  /\ ir.kind = "select"
  /\ call' = Ran("get", IF ir.dialect = "pg"
                        THEN pg_compileSelect(ir.table, ir.statements)
                        ELSE compileSelect(ir.table, ir.statements))
  /\ UNCHANGED <<cacheVars, fp, ir, trx, boot, restVars>>

\* QueryBuilder.insert
QueryBuilderInsert ==
  /\ ir.kind = "insert"
  /\ call' = Ran("insert", IF ir.dialect = "pg"
                           THEN pg_compileInsert(ir.table, ir.data)
                           ELSE compileInsert(ir.table, ir.data))
  /\ UNCHANGED <<cacheVars, fp, ir, trx, boot, restVars>>

\* QueryBuilder.update
QueryBuilderUpdate ==
  /\ ir.kind = "update"
  /\ call' = Ran("update", IF ir.dialect = "pg"
                           THEN pg_compileUpdate(ir.table, ir.data, ir.where)
                           ELSE compileUpdate(ir.table, ir.data, ir.where))
  /\ UNCHANGED <<cacheVars, fp, ir, trx, boot, restVars>>

\* QueryBuilder.delete
QueryBuilderDelete ==
  /\ ir.kind = "delete"
  /\ call' = Ran("delete", IF ir.dialect = "pg"
                           THEN pg_compileDelete(ir.table, ir.where)
                           ELSE compileDelete(ir.table, ir.where))
  /\ UNCHANGED <<cacheVars, fp, ir, trx, boot, restVars>>

\* SchemaBuilder.createTable
createTable ==
  /\ ir.kind = "table"
  /\ call' = Ran("createTable",
                 CASE ir.dialect = "pg" -> pg_compileCreateTable(ir.table, ir.columns, ir.constraints)
                   [] ir.dialect = "mysql" ->
                        mysql_compileCreateTable(ir.table, ir.columns, ir.constraints)
                   [] ir.dialect = "mssql" ->
                        mssql_compileCreateTable(ir.table, ir.columns, ir.constraints)
                   [] OTHER -> compileCreateTable(ir.table, ir.columns, ir.constraints))
  /\ UNCHANGED <<cacheVars, fp, ir, trx, boot, restVars>>

\* SchemaBuilder.alterTable; the sqlite compiler writes to the columns it is given
alterTable ==
  /\ ir.kind = "table"
  /\ call' = Ran("alterTable",
                 CASE ir.dialect = "pg" -> pg_compileAlterTable(ir.table, ir.columns, ir.constraints)
                   [] ir.dialect = "mysql" ->
                        mysql_compileAlterTable(ir.table, ir.columns, ir.constraints)
                   [] ir.dialect = "mssql" ->
                        mssql_compileAlterTable(ir.table, ir.columns, ir.constraints)
                   [] OTHER -> compileAlterTable(ir.table, ir.columns, ir.constraints))
  /\ ir' = IF ir.dialect = "sqlite"
           THEN [ir EXCEPT !.columns = AlteredColumns(ir.columns)] ELSE ir
  /\ UNCHANGED <<cacheVars, fp, trx, boot, restVars>>

----------------------------------------------------------------------------
(* Client.transaction *)

Trxs == {"t1", "t2"}
\* calls: the dialect functions called so far; txn: the state of the transaction the
\* dialect began for this run; stmts: where the statements of the callback ran
TrxIdle == [pc |-> "idle", calls |-> <<>>, cb |-> "none", pending |-> "none",
            outcome |-> "none", txn |-> "none", stmts |-> <<>>]

\* how many statements a callback sends through the transaction client at most
MaxTrxStmts == 1

\* beginTransaction of the dialect module: BEGIN on the connection, or for mssql a
\* new sql.Transaction(pool) begun and returned
beginTransaction(d, ok) == IF ok THEN "begun" ELSE "none"

\* commitTransaction(connection): COMMIT on the connection; the mssql function commits
\* its argument only if that has a commit method, and Client.transaction hands it the
\* pool, which has none
commitTransaction(d, txn, ok) ==
  IF d = "mssql" THEN txn
  ELSE IF ok /\ txn = "begun" THEN "committed" ELSE txn

\* rollbackTransaction(connection), likewise
rollbackTransaction(d, txn, ok) ==
  IF d = "mssql" THEN txn
  ELSE IF ok /\ txn = "begun" THEN "rolledback" ELSE txn

\* await this.acquireConnection(), which rejects when connectionPool is null or when
\* the dialect's acquireConnection rejects: nothing else runs then
TrxAcquire(t, ok) ==
  /\ trx[t].pc \in {"idle", "done"}
  /\ trx' = [trx EXCEPT ![t] =
               IF client.connectionPool = "null"
               THEN [TrxIdle EXCEPT !.pc = "done", !.outcome = "throw poolError"]
               ELSE IF ok
               THEN [TrxIdle EXCEPT !.pc = "begin", !.calls = <<"acquireConnection">>]
               ELSE [TrxIdle EXCEPT !.pc = "done", !.calls = <<"acquireConnection">>,
                                    !.outcome = "throw acquireError"]]
  /\ UNCHANGED <<cacheVars, fp, ir, call, boot, restVars>>

\* await beginTransaction(connection); a rejection lands in the catch block; what
\* beginTransaction returns is not kept
TrxBegin(t, ok) ==
  /\ trx[t].pc = "begin"
  /\ trx' = [trx EXCEPT ![t].calls = Append(@, "beginTransaction"),
                        ![t].txn = beginTransaction(client.dialect, ok),
                        ![t].pc = IF ok THEN "callback" ELSE "rollback",
                        ![t].pending = IF ok THEN "none" ELSE "throw beginError"]
  /\ UNCHANGED <<cacheVars, fp, ir, call, boot, restVars>>

\* trxClient.query(sql, bindings) inside the callback: trxClient.acquireConnection
\* hands back the connection of the run, trxClient.releaseConnection does nothing
TrxQuery(t, ok) ==
  LET \* where executeQuery runs a statement of the callback: on the connection BEGIN ran
      \* on, or for mssql on pool.request(), which is not the transaction's request
      RunsIn(d, txn) == IF d # "mssql" /\ txn = "begun" THEN "transaction" ELSE "pool"
  IN
  /\ trx[t].pc = "callback"
  /\ Len(trx[t].stmts) < MaxTrxStmts
  /\ trx' = [trx EXCEPT ![t].calls = Append(@, "executeQuery"),
                        ![t].stmts = Append(@, RunsIn(client.dialect, trx[t].txn))]
  /\ UNCHANGED <<cacheVars, fp, ir, call, boot, restVars>>

\* await callback(trxClient)
TrxCallback(t, resolves) ==
  /\ trx[t].pc = "callback"
  /\ trx' = [trx EXCEPT ![t].calls = Append(@, "callback"),
                        ![t].cb = IF resolves THEN "resolved" ELSE "rejected",
                        ![t].pc = IF resolves THEN "commit" ELSE "rollback",
                        ![t].pending = IF resolves THEN "return cbValue" ELSE "throw cbError"]
  /\ UNCHANGED <<cacheVars, fp, ir, call, boot, restVars>>

\* await commitTransaction(connection), inside the try block; the mssql function has
\* nothing to await when handed the pool
TrxCommit(t, ok) ==
  /\ trx[t].pc = "commit"
  /\ ok \/ client.dialect # "mssql"
  /\ trx' = [trx EXCEPT ![t].calls = Append(@, "commitTransaction"),
                        ![t].txn = commitTransaction(client.dialect, @, ok),
                        ![t].pc = IF ok THEN "release" ELSE "rollback",
                        ![t].pending = IF ok THEN @ ELSE "throw commitError"]
  /\ UNCHANGED <<cacheVars, fp, ir, call, boot, restVars>>

\* catch (error): await rollbackTransaction(connection); throw error
TrxRollback(t, ok) ==
  /\ trx[t].pc = "rollback"
  /\ ok \/ client.dialect # "mssql"
  /\ trx' = [trx EXCEPT ![t].calls = Append(@, "rollbackTransaction"),
                        ![t].txn = rollbackTransaction(client.dialect, @, ok),
                        ![t].pc = "release",
                        ![t].pending = IF ok THEN @ ELSE "throw rollbackError"]
  /\ UNCHANGED <<cacheVars, fp, ir, call, boot, restVars>>

\* finally: await this.releaseConnection(connection), which returns at once when
\* connectionPool is null; the caller gets what is pending
TrxRelease(t) ==
  /\ trx[t].pc = "release"
  /\ trx' = [trx EXCEPT ![t].calls = IF client.connectionPool = "null" THEN @
                                     ELSE Append(@, "releaseConnection"),
                        ![t].pc = "done",
                        ![t].pending = "none",
                        ![t].outcome = trx[t].pending]
  /\ UNCHANGED <<cacheVars, fp, ir, call, boot, restVars>>

----------------------------------------------------------------------------
(* new Client(config), Client.query, Client.destroy *)

Queries == {"q1"}
\* acquired: whether a connection was handed out; released: the calls of the dialect's
\* releaseConnection made with it; poolWas: connectionPool when the call started
QueryIdle == [pc |-> "idle", acquired |-> FALSE, released |-> 0, poolWas |-> "open",
              settled |-> "none", outcome |-> "none"]

\* new Client(config): _loadDialect and _initialize
NewClient(d) ==
  /\ \A t \in Trxs : trx[t].pc = "idle"
  /\ \A q \in Queries : qry[q].pc = "idle"
  /\ client.connectionPool = "open"
  /\ client' = [dialect |-> d, connectionPool |-> "open"]
  /\ UNCHANGED <<cacheVars, fp, ir, call, trx, boot, ext, probe, qry>>

\* Client.query: const connection = await this.acquireConnection()
QueryAcquire(q, ok) ==
  /\ qry[q].pc \in {"idle", "done"}
  /\ qry' = [qry EXCEPT ![q] =
               IF client.connectionPool = "null"
               THEN [QueryIdle EXCEPT !.pc = "done", !.poolWas = "null",
                                      !.outcome = "throw poolError"]
               ELSE IF ok
               THEN [QueryIdle EXCEPT !.pc = "execute", !.acquired = TRUE]
               ELSE [QueryIdle EXCEPT !.pc = "done", !.outcome = "throw acquireError"]]
  /\ UNCHANGED <<cacheVars, fp, ir, call, trx, boot, ext, probe, client>>

\* try { const result = await executeQuery(connection, sql, bindings); return result }
QueryExecute(q, ok) ==
  /\ qry[q].pc = "execute"
  /\ qry' = [qry EXCEPT ![q].pc = "finally",
                        ![q].settled = IF ok THEN "return result" ELSE "throw queryError"]
  /\ UNCHANGED <<cacheVars, fp, ir, call, trx, boot, ext, probe, client>>

\* finally { await this.releaseConnection(connection) }: nothing is released when
\* connectionPool is null
QueryRelease(q) ==
  /\ qry[q].pc = "finally"
  /\ qry' = [qry EXCEPT ![q].pc = "done",
                        ![q].released = IF client.connectionPool = "null" THEN @ ELSE @ + 1,
                        ![q].outcome = qry[q].settled]
  /\ UNCHANGED <<cacheVars, fp, ir, call, trx, boot, ext, probe, client>>

\* Client.destroy: await destroyPool(this.connectionPool); this.connectionPool = null
destroy(ok) ==
  /\ client.connectionPool = "open"
  /\ client' = [client EXCEPT !.connectionPool = IF ok THEN "null" ELSE @]
  /\ UNCHANGED <<cacheVars, fp, ir, call, trx, boot, ext, probe, qry>>

----------------------------------------------------------------------------
(* vesperDB(config) *)

SUPPORTED_DIALECTS == {"pg", "mysql", "sqlite", "mssql"}

\* as if only the first required field were looked at
validateConnectionConfig_FirstOnly(connection, requiredFields) ==
  IF requiredFields[1] \notin connection.fields
  THEN "Le champ '" \o requiredFields[1] \o "' est requis" ELSE ""

\* validateConnectionConfig(connection, requiredFields): the first missing field throws
validateConnectionConfig(connection, requiredFields) ==
  LET missing == SelectSeq(requiredFields, LAMBDA f : f \notin connection.fields) IN
  IF Len(missing) > 0 THEN "Le champ '" \o missing[1] \o "' est requis" ELSE ""

\* the message configValidator throws, or "" when it returns true
configValidator(config) ==
  LET validateSqliteConfig(connection) ==
        IF "filename" \notin connection.fields THEN "Le champ 'filename' est requis" ELSE ""
  IN
  IF config.given = "null" THEN "La configuration est requise"
  ELSE IF config.client = "undefined" THEN "Le client/dialecte est requis"
  ELSE IF config.client \notin SUPPORTED_DIALECTS THEN "Le dialecte n'est pas supporte"
  ELSE IF ~config.connection.given THEN "La configuration de connexion est requise"
  ELSE IF config.client \in {"pg", "mysql", "mssql", "oracle"}
       THEN validateConnectionConfig(config.connection,
                                     <<"host", "user", "password", "database">>)
  ELSE IF config.client = "sqlite" THEN validateSqliteConfig(config.connection)
  ELSE ""

NotBooted ==
  [config |-> [given |-> "none"], trace |-> <<>>, thrown |-> "", returned |-> FALSE,
   exposes |-> {}]

\* new JsonOperations(vesperdb) reads vesperdb.config.client: the message of the
\* TypeError when vesperdb has no config property, "" otherwise
createJsonOperations(props) ==
  IF "config" \in props THEN ""
  ELSE "Cannot read properties of undefined (reading 'client')"

\* configureCacheMiddleware(vesperdb, options) calls vesperdb.on(...) twice, then sets
\* vesperdb.cache
configureCacheMiddleware(props) ==
  IF "on" \in props THEN "" ELSE "vesperdb.on is not a function"

\* vesperDB(config): configValidator, new Client (_loadDialect, _initialize), then the
\* instance is put together
vesperDB(config, moduleFound) ==
  LET \* the object vesperDB works on: `config = {}` stands in for an argument left out
      Defaulted(cfg) ==
        IF cfg.given = "undefined"
        THEN [given |-> "object", client |-> "undefined",
              connection |-> [given |-> FALSE, fields |-> {}], cacheEnabled |-> FALSE]
        ELSE cfg
      \* what vesperDB does once new Client(config) has returned
      Assemble(cfg, c) ==
        LET \* the properties assigned to `instance` (a function) before createJsonOperations
            InstanceProps == {"client", "queryBuilder", "schemaBuilder", "schema", "Schema"}
        IN
        LET trace == <<"loadDialect", "createPool">>
            jsonError == createJsonOperations(InstanceProps)
            withJson == InstanceProps \cup {"json"}
            cacheError == IF c.cacheEnabled THEN configureCacheMiddleware(withJson) ELSE ""
            withCache == IF c.cacheEnabled THEN withJson \cup {"cache"} ELSE withJson
        IN
        IF jsonError # ""
        THEN [config |-> cfg, trace |-> trace, thrown |-> jsonError, returned |-> FALSE,
              exposes |-> {}]
        ELSE IF cacheError # ""
        THEN [config |-> cfg, trace |-> trace, thrown |-> cacheError, returned |-> FALSE,
              exposes |-> {}]
        ELSE [config |-> cfg, trace |-> trace, thrown |-> "", returned |-> TRUE,
              exposes |-> withCache \cup {"transaction", "raw"}]
  IN
  LET c == Defaulted(config)
      error == configValidator(c)
  IN
  /\ boot' =
       IF error # ""
       THEN [config |-> config, trace |-> <<>>, thrown |-> error, returned |-> FALSE,
             exposes |-> {}]
       ELSE IF ~moduleFound
       THEN [config |-> config, trace |-> <<"loadDialect">>,
             thrown |-> "Dialecte non supporte ou introuvable", returned |-> FALSE,
             exposes |-> {}]
       ELSE Assemble(config, c)
  /\ UNCHANGED <<cacheVars, fp, ir, call, trx, restVars>>

----------------------------------------------------------------------------
(* SchemaBuilder.hasTable / hasColumn: the introspection query of the        *)
(* dialect, the database it runs on, executeQuery of the dialect module      *)

\* compileTableExists(tableName), per dialect: the statement by what it asks
compileTableExists(d, tableName) ==
  [firstWord |-> "SELECT", asks |-> "table", table |-> tableName, column |-> "",
   bindings |-> <<tableName>>]

\* compileColumnExists(tableName, columnName), per dialect; sqlite lists the columns of
\* the table with PRAGMA table_info and binds nothing
compileColumnExists(d, tableName, columnName) ==
  IF d = "sqlite"
  THEN [firstWord |-> "PRAGMA", asks |-> "columns of", table |-> tableName, column |-> "",
        bindings |-> <<>>]
  ELSE [firstWord |-> "SELECT", asks |-> "column", table |-> tableName,
        column |-> columnName, bindings |-> <<tableName, columnName>>]

RECURSIVE SetToSeq(_)
SetToSeq(S) ==
  IF S = {} THEN <<>> ELSE LET x == CHOOSE y \in S : TRUE IN <<x>> \o SetToSeq(S \ {x})

\* the rows the database yields for an introspection statement; catalog maps each
\* table that exists to its columns
RowsFor(catalog, q) ==
  IF q.table \notin DOMAIN catalog THEN <<>>
  ELSE IF q.asks = "table" THEN <<q.table>>
  ELSE IF q.asks = "column"
       THEN (IF q.column \in catalog[q.table] THEN <<q.column>> ELSE <<>>)
  ELSE SetToSeq(catalog[q.table])

\* executeQuery of the dialect module: sqlite and mssql look at the first word of the
\* text and hand back { rowCount } for anything that is neither SELECT nor INSERT; pg
\* and mysql hand back the rows
executeQuery(d, q, rows) ==
  IF d \in {"sqlite", "mssql"} /\ q.firstWord # "SELECT"
  THEN [isArray |-> FALSE, rows |-> <<>>]
  ELSE [isArray |-> TRUE, rows |-> rows]

\* result.length > 0; the length of an object that is no array is undefined, and
\* undefined > 0 is false
HasRows(result) == result.isArray /\ Len(result.rows) > 0

NoProbe ==
  [fn |-> "none", dialect |-> "", catalog |-> <<>>, table |-> "", column |-> "",
   query |-> [firstWord |-> "", asks |-> "", table |-> "", column |-> "", bindings |-> <<>>],
   returned |-> FALSE]

\* SchemaBuilder.hasTable(tableName) on a database holding catalog
hasTable(d, catalog, tableName) ==
  /\ LET q == compileTableExists(d, tableName) IN
     probe' = [fn |-> "hasTable", dialect |-> d, catalog |-> catalog, table |-> tableName,
               column |-> "", query |-> q,
               returned |-> HasRows(executeQuery(d, q, RowsFor(catalog, q)))]
  /\ UNCHANGED <<cacheVars, fp, ir, call, trx, boot, ext, client, qry>>

\* SchemaBuilder.hasColumn(tableName, columnName)
hasColumn(d, catalog, tableName, columnName) ==
  /\ LET q == compileColumnExists(d, tableName, columnName) IN
     probe' = [fn |-> "hasColumn", dialect |-> d, catalog |-> catalog, table |-> tableName,
               column |-> columnName, query |-> q,
               returned |-> HasRows(executeQuery(d, q, RowsFor(catalog, q)))]
  /\ UNCHANGED <<cacheVars, fp, ir, call, trx, boot, ext, client, qry>>

----------------------------------------------------------------------------

Init ==
  /\ cache = <<>>
  /\ tableMap = EmptyMap
  /\ stats = ZeroStats
  /\ ret = NoCall
  /\ db = [t \in Tables |-> 0]
  /\ query = [p \in Procs |-> Idle]
  /\ acked = [t \in Tables |-> 0]
  /\ issued = 0
  /\ fp = <<>>
  /\ ir = NoIr
  /\ call = NoCompile
  /\ trx = [t \in Trxs |-> TrxIdle]
  /\ boot = NotBooted
  /\ ext = NoExtract
  /\ probe = NoProbe
  /\ client = [dialect |-> Dialect, connectionPool |-> "open"]
  /\ qry = [q \in Queries |-> QueryIdle]

\* set(sql, bindings, value, dialect, tables): a result with any table set, or a
\* falsy value with every table
SetInputs ==
  LET \* the arguments the calls are made with
      DirectValues == {Rows([t \in {"users"} |-> 0])}
  IN
  {<<q, v, ts>> : q \in Selects, v \in DirectValues, ts \in SUBSET Tables}
    \cup {<<q, v, Tables>> : q \in Selects, v \in FalsyValues}
InvalidateInputs ==
  LET \* `tables` is null, one table name or an array of table names
      NoTables == [kind |-> "null", list |-> <<>>]
      OneTable(t) == [kind |-> "string", list |-> <<t>>]
      TableLists == {<<>>, <<"users">>, <<"orders">>, <<"users", "orders">>, <<"users", "users">>}
  IN
  {NoTables} \cup {OneTable(t) : t \in Tables} \cup {TableArray(l) : l \in TableLists}

\* the cache object used directly
Next ==
  \/ \E q \in Selects : CallGet(q)
  \/ \E a \in SetInputs : CallSet(a[1], a[2], a[3])
  \/ \E ts \in InvalidateInputs : CallInvalidate(ts)
  \/ clear
  \/ Tick

Spec == Init /\ [][Next]_vars

\* statements sent through the middleware by concurrent callers
NextMw ==
  \/ \E p \in Procs, s \in Statements : Issue(p, s)
  \/ \E p \in Procs : OnQuery(p)
  \/ \E p \in Procs : ClientQuery(p)
  \/ \E p \in Procs : ClientQueryFails(p)
  \/ \E p \in Procs : OnQueryResponse(p)
  \/ Tick

SpecMw == Init /\ [][NextMw]_vars

\* generateCacheKey called with any two argument triples
NextKey ==
  \E sql \in SqlTexts, b \in BindingLists, d \in Dialects : GenerateCacheKey(sql, b, d)

SpecKey == Init /\ [][NextKey]_vars

\* every sequence over S of length at most n
SeqsUpTo(S, n) == UNION {[1..k -> S] : k \in 0..n}

\* the statement specs callers build
WherePreds ==
  {[column |-> "id", operator |-> "=", value |-> "1", boolean |-> "AND"],
   [column |-> "age", operator |-> ">", value |-> "2", boolean |-> "OR"]}

RowObjects ==
  {<<>>,
   <<[k |-> "name", v |-> "'a'"]>>,
   <<[k |-> "name", v |-> "'a'"], [k |-> "email", v |-> "'b'"]>>,
   <<[k |-> "email", v |-> "'c'"], [k |-> "name", v |-> "'d'"]>>,
   <<[k |-> "email", v |-> "'e'"]>>}

StatementSpecs ==
  LET SelectSpecs ==
        LET HavingPreds ==
              {[column |-> "total", operator |-> ">", value |-> "3", boolean |-> "AND"],
               [column |-> "cnt", operator |-> "<", value |-> "4", boolean |-> "OR"]}
            JoinSpecs ==
              {[type |-> t, table |-> "orders", first |-> "users.id", operator |-> "=",
                second |-> "orders.user_id"] : t \in {"inner", "left", "right", "full"}}
            \* select, groupBy and orderBy: left alone, or each given
            Decor ==
              {[select |-> <<>>, groupBy |-> <<>>, orderBy |-> <<>>],
               [select |-> <<"id", "name">>, groupBy |-> <<"age">>,
                orderBy |-> <<[column |-> "id", direction |-> "desc"]>>]}
        IN
        {[kind |-> "select", dialect |-> d, table |-> "users",
          statements |-> [select |-> x.select, where |-> w, join |-> j, orderBy |-> x.orderBy,
                          limit |-> l, offset |-> o, groupBy |-> x.groupBy, having |-> h]] :
           d \in {"sqlite", "pg"}, x \in Decor, w \in SeqsUpTo(WherePreds, MaxPreds),
           j \in SeqsUpTo(JoinSpecs, MaxJoins), h \in SeqsUpTo(HavingPreds, MaxPreds),
           l \in {"null", "1"}, o \in {"null", "20"}}
      InsertSpecs ==
        {[kind |-> "insert", dialect |-> d, table |-> "users", data |-> x] :
           d \in {"sqlite", "pg"},
           x \in {[isArray |-> TRUE, rows |-> rs] : rs \in SeqsUpTo(RowObjects, MaxRows)}
                   \cup {[isArray |-> FALSE, row |-> r] : r \in RowObjects}}
      UpdateSpecs ==
        {[kind |-> "update", dialect |-> d, table |-> "users", data |-> x, where |-> w] :
           d \in {"sqlite", "pg"},
           x \in {[missing |-> TRUE, row |-> <<>>]}
                   \cup {[missing |-> FALSE, row |-> r] : r \in RowObjects},
           w \in SeqsUpTo(WherePreds, MaxPreds)}
      DeleteSpecs ==
        {[kind |-> "delete", dialect |-> d, table |-> "users", where |-> w] :
           d \in {"sqlite", "pg"}, w \in SeqsUpTo(WherePreds, MaxPreds)}
      TableSpecs ==
        LET ColumnDefs ==
              LET \* new ColumnBuilder(name, type, options) and the calls made on it; geometry is in
                  \* no DATA_TYPES table
                  Column(name, type, nullable, defaultValue, autoIncrement) ==
                    [name |-> name, type |-> type, nullable |-> nullable, defaultValue |-> defaultValue,
                     autoIncrement |-> autoIncrement,
                     length |-> IF type = "string" THEN "255" ELSE "undefined",
                     precision |-> IF type = "decimal" THEN "8" ELSE "undefined",
                     scale |-> IF type = "decimal" THEN "2" ELSE "undefined"]
              IN
              {Column("email", t, n, dv, FALSE) :
                 t \in {"integer", "string", "geometry"}, n \in BOOLEAN, dv \in {"undefined", "'x'"}}
                \cup {Column("id", "integer", n, "undefined", TRUE) : n \in BOOLEAN}
            ConstraintSets ==
              LET NoConstraints == [primaryKey |-> <<>>, unique |-> <<>>, foreignKeys |-> <<>>, index |-> <<>>]
              IN
              {NoConstraints,
               [NoConstraints EXCEPT !.primaryKey = <<"id">>],
               [NoConstraints EXCEPT !.index = <<[columns |-> <<"email">>, name |-> "undefined"]>>],
               [primaryKey |-> <<"id", "email">>, unique |-> << <<"email">> >>,
                foreignKeys |-> <<[column |-> "owner", referenceTable |-> "users",
                                   referenceColumn |-> "id"]>>,
                index |-> <<[columns |-> <<"email">>, name |-> "by_email"]>>]}
        IN
        {[kind |-> "table", dialect |-> d, table |-> "users", columns |-> cs, constraints |-> k] :
           d \in SUPPORTED_DIALECTS, cs \in SeqsUpTo(ColumnDefs, MaxColumns), k \in ConstraintSets}
  IN
                  SelectSpecs \cup InsertSpecs \cup UpdateSpecs \cup DeleteSpecs \cup TableSpecs

\* a statement spec built (once: the builder is new) and run through the builders, any
\* number of times
NextCompile ==
  \/ ir.kind = "none" /\ \E s \in StatementSpecs : NewStatement(s)
  \/ QueryBuilderGet
  \/ QueryBuilderInsert
  \/ QueryBuilderUpdate
  \/ QueryBuilderDelete
  \/ createTable
  \/ alterTable

SpecCompile == Init /\ [][NextCompile]_vars

\* transactions run side by side on one client
NextTrx ==
  \/ \E t \in Trxs, ok \in BOOLEAN : TrxAcquire(t, ok)
  \/ \E t \in Trxs, ok \in BOOLEAN : TrxBegin(t, ok)
  \/ \E t \in Trxs, resolves \in BOOLEAN : TrxCallback(t, resolves)
  \/ \E t \in Trxs, ok \in BOOLEAN : TrxCommit(t, ok)
  \/ \E t \in Trxs, ok \in BOOLEAN : TrxRollback(t, ok)
  \/ \E t \in Trxs : TrxRelease(t)

SpecTrx == Init /\ [][NextTrx]_vars

\* the configs vesperDB is called with
Configs ==
  LET ConnectionFields == {"host", "user", "password", "database", "filename"}
  IN
  {[given |-> g] : g \in {"undefined", "null"}}
    \cup {[given |-> "object", client |-> cl,
           connection |-> [given |-> FALSE, fields |-> {}], cacheEnabled |-> ce] :
            cl \in SUPPORTED_DIALECTS \cup {"undefined", "oracle", "mongo"},
            ce \in BOOLEAN}
    \cup {[given |-> "object", client |-> cl,
           connection |-> [given |-> TRUE, fields |-> fs], cacheEnabled |-> ce] :
            cl \in SUPPORTED_DIALECTS \cup {"undefined", "oracle", "mongo"},
            fs \in SUBSET ConnectionFields, ce \in BOOLEAN}

NextBoot ==
  \E config \in Configs, moduleFound \in BOOLEAN : vesperDB(config, moduleFound)

SpecBoot == Init /\ [][NextBoot]_vars

\* hand-written statements: how many schema prefixes a table name is given at most
MaxPrefixes == 2

\* the ways a statement writes the table `name`: bare, quoted, aliased, qualified
RECURSIVE Qualified(_, _)
Qualified(name, n) == IF n = 0 THEN name ELSE <<"d", "b", "1", ".">> \o Qualified(name, n - 1)
\* what may follow: nothing, or a join with a second table
ExtractTexts ==
  LET Users == <<"u", "s", "e", "r", "s">>
      Orders == <<"O", "r", "d", "e", "r", "s">>
      TableForms(name) ==
        {[name |-> name, form |-> "bare", text |-> name],
         [name |-> name, form |-> "backticks", text |-> <<"BACKTICK">> \o name \o <<"BACKTICK">>],
         [name |-> name, form |-> "double quotes", text |-> <<"DQUOTE">> \o name \o <<"DQUOTE">>],
         [name |-> name, form |-> "brackets", text |-> <<"[">> \o name \o <<"]">>],
         [name |-> name, form |-> "AS alias", text |-> name \o <<" ", "A", "S", " ", "u">>],
         [name |-> name, form |-> "bare alias", text |-> name \o <<" ", "u">>]}
          \cup {[name |-> name, form |-> "qualified " \o ToString(n), text |-> Qualified(name, n)] :
                  n \in 1..MaxPrefixes}
      \* the text before the table name, keyword included
      Openings ==
        {<<"S", "E", "L", "E", "C", "T", " ", "*", " ", "F", "R", "O", "M", " ">>,
         <<"s", "e", "l", "e", "c", "t", " ", "*", " ", "f", "r", "o", "m", " ", " ">>,
         <<"I", "N", "S", "E", "R", "T", " ", "I", "N", "T", "O", " ">>,
         <<"U", "P", "D", "A", "T", "E", " ">>,
         <<"u", "p", "d", "a", "t", "e", " ">>,
         <<"D", "R", "O", "P", " ", "T", "A", "B", "L", "E", " ">>}
  IN
  {[sql |-> o \o f.text, names |-> {LowerChars(Users)}, forms |-> {f.form}] :
     o \in Openings, f \in TableForms(Users)}
    \cup {[sql |-> o \o f.text \o <<" ", "J", "o", "i", "n", " ">> \o g.text,
            names |-> {LowerChars(Users), LowerChars(g.name)}, forms |-> {f.form, g.form}] :
             o \in Openings, f \in TableForms(Users),
             g \in TableForms(Users) \cup TableForms(Orders)}

NextExtract ==
  \/ ~ext.given /\ \E t \in ExtractTexts : WriteStatement(t)
  \/ ExtractTables

SpecExtract == Init /\ [][NextExtract]_vars

\* the databases the existence checks run on: each table absent, or present with some
\* of the columns
ColumnNames == {"id", "email"}
Catalogs ==
  UNION {[T -> SUBSET ColumnNames] : T \in SUBSET Tables}

NextProbe ==
  \/ \E d \in SUPPORTED_DIALECTS, catalog \in Catalogs, t \in Tables :
       hasTable(d, catalog, t)
  \/ \E d \in SUPPORTED_DIALECTS, catalog \in Catalogs, t \in Tables, c \in ColumnNames :
       hasColumn(d, catalog, t, c)

SpecProbe == Init /\ [][NextProbe]_vars

\* one client: transactions, statements sent outside them, and destroy, side by side
NextClient ==
  \/ \E d \in SUPPORTED_DIALECTS : NewClient(d)
  \/ \E t \in Trxs, ok \in BOOLEAN : TrxAcquire(t, ok)
  \/ \E t \in Trxs, ok \in BOOLEAN : TrxBegin(t, ok)
  \/ \E t \in Trxs, ok \in BOOLEAN : TrxQuery(t, ok)
  \/ \E t \in Trxs, resolves \in BOOLEAN : TrxCallback(t, resolves)
  \/ \E t \in Trxs, ok \in BOOLEAN : TrxCommit(t, ok)
  \/ \E t \in Trxs, ok \in BOOLEAN : TrxRollback(t, ok)
  \/ \E t \in Trxs : TrxRelease(t)
  \/ \E q \in Queries, ok \in BOOLEAN : QueryAcquire(q, ok)
  \/ \E q \in Queries, ok \in BOOLEAN : QueryExecute(q, ok)
  \/ \E q \in Queries : QueryRelease(q)
  \/ \E ok \in BOOLEAN : destroy(ok)

SpecClient == Init /\ [][NextClient]_vars

----------------------------------------------------------------------------
(* Properties of the cache object (Spec) *)

\* the keys registered under the tables of T
RegisteredUnder(tm, T) == UNION {tm[t] : t \in T \cap DOMAIN tm}
\* the entry of key k is held and has not expired
Present(c, k) == k \in KeysOf(c) /\ ~isStale(EntryOf(c, k))

\* C1: every fingerprint in the index set of any table is in the primary store
C1_IndexWithinStore ==
  \A t \in DOMAIN tableMap : tableMap[t] \subseteq KeysOf(cache)

\* C2: after invalidate(T) every fingerprint that was registered under a table of T
\* is out of the primary store and out of the index set of every table, the index
\* entries of the tables of T are gone, and a get of it misses
C2_InvalidateRemovesEverywhere ==
  [][\A ts \in InvalidateInputs :
       (ts.kind # "null" /\ CallInvalidate(ts)) =>
         LET F == RegisteredUnder(tableMap, Range(ts.list)) IN
         /\ F \cap KeysOf(cache') = {}
         /\ \A t \in DOMAIN tableMap' : tableMap'[t] \cap F = {}
         /\ Range(ts.list) \cap DOMAIN tableMap' = {}
         /\ \A k \in F : get(cache', stats', k[1], k[2], k[3]).value = Null]_vars

\* C7: invalidate(T) returns the number of entries it removed from the primary
\* store, each fingerprint registered under tables of T counted once if it was in
\* the store and not at all otherwise; invalidations grows by that number; with
\* no tables or only tables without index entry it returns 0 and changes nothing
C7_InvalidateCount ==
  [][ret'.op = "invalidate" =>
      \A ts \in InvalidateInputs :
       CallInvalidate(ts) =>
         LET T == IF ts.kind = "null" THEN {} ELSE Range(ts.list)
             F == RegisteredUnder(tableMap, T)
         IN /\ ret'.count = Len(cache) - Len(cache')
            /\ ret'.count = Cardinality(F \cap KeysOf(cache))
            /\ stats' = [stats EXCEPT !.invalidations = @ + ret'.count]
            /\ (T \cap DOMAIN tableMap = {}) =>
                  (ret'.count = 0 /\ UNCHANGED <<cache, tableMap, stats>>)]_vars

C7_Witness ==
  /\ ret.op = "invalidate"
  /\ ret.count = 1
  /\ stats.invalidations = 1
  /\ stats.sets = 2
  /\ Len(cache) = 1

\* C8: put with a falsy result returns false and changes neither store, index nor
\* counters; put with any other result returns true, registers the fingerprint
\* under every table of `tables`, stores it and adds one to sets
C8_SetRejectsFalsy ==
  [][ret'.op = "set" =>
      \A a \in SetInputs :
       CallSet(a[1], a[2], a[3]) =>
         LET k == KeyOf(a[1]) IN
         IF a[2] \in FalsyValues
         THEN ret'.ok = FALSE /\ UNCHANGED <<cache, tableMap, stats>>
         ELSE /\ ret'.ok = TRUE
              /\ \A t \in a[3] : t \in DOMAIN tableMap' /\ k \in tableMap'[t]
              /\ k \in KeysOf(cache')
              /\ EntryOf(cache', k).value = a[2]
              /\ stats' = [stats EXCEPT !.sets = @ + 1]]_vars

C8_Witness ==
  /\ ret.op = "set"
  /\ ret.ok = FALSE
  /\ stats.sets = 1
  /\ Len(cache) = 1
  /\ DOMAIN tableMap = Tables

\* C10: a get adds one to hits and returns the stored value exactly when the
\* fingerprint is present (held and not expired), adds one to misses and returns
\* null otherwise, and changes neither sets, invalidations nor the index; no other
\* call changes hits + misses, except clear, which resets it
GetStep == \E q \in Selects : CallGet(q)

C10_GetCountsOnce ==
  [][/\ \A q \in Selects :
          CallGet(q) =>
            /\ tableMap' = tableMap
            /\ IF Present(cache, KeyOf(q))
               THEN /\ stats' = [stats EXCEPT !.hits = @ + 1]
                    /\ ret'.value = EntryOf(cache, KeyOf(q)).value
               ELSE /\ stats' = [stats EXCEPT !.misses = @ + 1]
                    /\ ret'.value = Null
     /\ ~GetStep =>
          \/ stats'.hits + stats'.misses = stats.hits + stats.misses
          \/ stats' = ZeroStats]_vars

\* a hit, then a miss on the same entry once it has expired
C10_Witness ==
  /\ ret.op = "get"
  /\ ret.value = Null
  /\ stats = [hits |-> 1, misses |-> 1, sets |-> 1, invalidations |-> 0]
  /\ cache = <<>>

----------------------------------------------------------------------------
(* Properties of the middleware (SpecMw) *)

IsWrite(s) == s.method # "select"
Missed(q) == q.stmt.method = "select" /\ ~Truthy(q.cachedResult)

\* C3: once a write on table t has executed and its response has been processed,
\* no later lookup returns a result for a SELECT referencing t that was read
\* before that write
C3_NoStaleRead ==
  [][\A p \in Procs :
       (OnQuery(p) /\ Truthy(query'[p].cachedResult)) =>
         \A t \in query[p].stmt.reads :
           t \in DOMAIN query'[p].cachedResult.rows
           /\ query'[p].cachedResult.rows[t] >= acked[t]]_vars

\* C4: a SELECT whose fingerprint is present and unexpired gets the stored result
\* and is not executed; a SELECT that misses is executed and its result is then
\* stored under its fingerprint and indexed by the tables of its text
C4_HitSkipsExecution ==
  [][\A p \in Procs :
       /\ (query[p].stmt.method = "select" /\ OnQuery(p)) =>
            (Present(cache, KeyOf(query[p].stmt)) <=> Truthy(query'[p].cachedResult))
       /\ (ClientQuery(p) \/ ClientQueryFails(p)) => ~Truthy(query[p].cachedResult)
       /\ (OnQueryResponse(p) /\ Missed(query[p])) =>
            /\ query[p].executed
            /\ KeyOf(query[p].stmt) \in KeysOf(cache')
            /\ EntryOf(cache', KeyOf(query[p].stmt)).value = query[p].response
            /\ \A t \in extractTablesFromQuery(query[p].stmt.sql) :
                 t \in DOMAIN tableMap' /\ KeyOf(query[p].stmt) \in tableMap'[t]]_vars

\* C5: for every write-shaped statement that executed successfully (INSERT,
\* UPDATE, DELETE, DDL) the middleware calls invalidate on the tables extracted
\* from the statement's text, and the write's result is not stored
C5_WritesInvalidate ==
  [][\A p \in Procs :
       (OnQueryResponse(p) /\ IsWrite(query[p].stmt)) =>
         /\ query'[p].call = "invalidate"
         /\ extractTablesFromQuery(query[p].stmt.sql) \cap DOMAIN tableMap' = {}
         /\ KeysOf(cache') \subseteq KeysOf(cache)
         /\ stats'.sets = stats.sets]_vars

C9_LastWriterWins ==
  [][\A p \in Procs :
       (OnQueryResponse(p) /\ Missed(query[p])) =>
         LET k == KeyOf(query[p].stmt) IN
         /\ query[p].executed
         /\ query'[p].call = "set"
         /\ Cardinality({i \in DOMAIN cache' : cache'[i].key = k}) = 1
         /\ EntryOf(cache', k).value = query[p].response
         /\ get(cache', stats', k[1], k[2], k[3]).value = query[p].response]_vars

\* both executions missed and put, the one that read the older data last
C9_Witness ==
  /\ query["p1"].pc = "done" /\ query["p2"].pc = "done"
  /\ query["p1"].stmt = SelJoin /\ query["p2"].stmt = SelJoin
  /\ query["p1"].call = "set" /\ query["p2"].call = "set"
  /\ query["p1"].response.rows["orders"] = 0
  /\ query["p2"].response.rows["orders"] = 1
  /\ stats.sets = 2 /\ stats.misses = 2
  /\ Len(cache) = 1
  /\ cache[1].value = query["p1"].response

----------------------------------------------------------------------------
(* C11: generateCacheKey tells any two argument triples apart.  Two calls    *)
(* with equal sql, bindings and dialect return the same key, and two calls  *)
(* that differ in sql, in bindings (compared element by element) or in      *)
(* dialect return different keys.                                           *)
C11_KeysTellInputsApart ==
  \A i \in DOMAIN fp, j \in DOMAIN fp :
    ( /\ fp[i].sql = fp[j].sql
      /\ fp[i].bindings = fp[j].bindings
      /\ fp[i].dialect = fp[j].dialect ) <=> (fp[i].key = fp[j].key)

----------------------------------------------------------------------------
(* Helpers for the compiler claims *)

\* a parameter mark of either style
IsPlaceholder(tok) == tok = "?" \/ \E n \in 1..12 : tok = Dollar(n)
\* where the parameter marks stand in a text, left to right
Positions(sql) == SelectSeq([p \in DOMAIN sql |-> p], LAMBDA p : IsPlaceholder(sql[p]))
\* a predicate owns the mark that follows its column and operator
PredOwners(preds) ==
  [i \in DOMAIN preds |-> [lead |-> <<preds[i].column, preds[i].operator>>,
                           value |-> preds[i].value]]
\* the i-th mark of the text follows the i-th owner's lead, is written in the
\* dialect's style for number i, and the i-th binding is that owner's value
OwnedInOrder(d, out, owners) ==
  LET ps == Positions(out.sql) IN
  /\ Len(ps) = Len(owners)
  /\ Len(out.bindings) = Len(owners)
  /\ \A i \in DOMAIN owners :
       /\ ps[i] > Len(owners[i].lead)
       /\ SubSeq(out.sql, ps[i] - Len(owners[i].lead), ps[i] - 1) = owners[i].lead
       /\ out.sql[ps[i]] = Placeholder(d, i)
       /\ out.bindings[i] = owners[i].value
\* the last n tokens of a text
Ending(sql, n) == SubSeq(sql, Len(sql) - n + 1, Len(sql))

----------------------------------------------------------------------------
(* C12: a select with k WHERE predicates, h HAVING predicates, a LIMIT and   *)
(* an OFFSET compiles, for sqlite and for pg, to a text with exactly k+h+2  *)
(* placeholders in the order WHERE, HAVING, LIMIT, OFFSET and to k+h+2       *)
(* bindings, the i-th binding being the value of the i-th placeholder's     *)
(* owner; users / where id = 1 / limit 1 gives a sqlite text ending in      *)
(* WHERE id = ? LIMIT ? with bindings [1, 1].                               *)
C12_SelectPlaceholders ==
  call.fn = "get" =>
    LET st == call.given.statements
        owners == PredOwners(st.where) \o PredOwners(st.having)
                    \o <<[lead |-> <<"LIMIT">>, value |-> st.limit],
                         [lead |-> <<"OFFSET">>, value |-> st.offset]>>
    IN /\ (IsSet(st.limit) /\ IsSet(st.offset)) =>
            /\ ~call.out.thrown
            /\ Len(Positions(call.out.sql)) = Len(st.where) + Len(st.having) + 2
            /\ OwnedInOrder(call.given.dialect, call.out, owners)
       /\ ( /\ call.given.dialect = "sqlite"
            /\ Len(st.where) = 1 /\ st.where[1].column = "id" /\ st.where[1].value = "1"
            /\ st.having = <<>> /\ st.orderBy = <<>> /\ st.groupBy = <<>>
            /\ st.limit = "1" /\ ~IsSet(st.offset) ) =>
            /\ Ending(call.out.sql, 6) = <<"WHERE", "id", "=", "?", "LIMIT", "?">>
            /\ call.out.bindings = <<"1", "1">>

C12_Witness ==
  /\ call.fn = "get"
  /\ call.given.dialect = "pg"
  /\ Len(call.given.statements.where) = 2
  /\ Len(call.given.statements.having) = 2
  /\ call.given.statements.limit = "1"
  /\ call.given.statements.offset = "20"
  /\ call.out.bindings = <<"1", "2", "4", "3", "1", "20">>
  /\ Ending(call.out.sql, 4) = <<"LIMIT", "$5", "OFFSET", "$6">>

----------------------------------------------------------------------------
(* C13: an insert of n >= 1 rows whose first row has the keys c1..cm is one  *)
(* statement with the column list c1..cm and n parenthesized lists of m     *)
(* placeholders; bindings has n*m elements, element (i-1)*m + j being row   *)
(* i's value for cj, and the text has as many placeholders as bindings.     *)
C13_InsertRows ==
  (call.fn = "insert" /\ Len(RowsOf(call.given.data)) >= 1) =>
    LET rows == RowsOf(call.given.data)
        n == Len(rows)
        c == Keys(rows[1])
        m == Len(c)
        sql == call.out.sql
        d == call.given.dialect
        head == <<"INSERT", "INTO", call.given.table, "(">> \o NameList(c) \o <<")", "VALUES">>
        tail == IF d = "pg" THEN <<"RETURNING", "id">> ELSE <<>>
        \* one list is ( p , p ... ): 2m+1 tokens, or ( ) when m = 0; lists are comma separated
        g == IF m = 0 THEN 2 ELSE 2 * m + 1
        lists == SubSeq(sql, Len(head) + 1, Len(sql) - Len(tail))
    IN /\ ~call.out.thrown
       /\ Len(sql) = Len(head) + n * g + (n - 1) + Len(tail)
       /\ SubSeq(sql, 1, Len(head)) = head
       /\ Ending(sql, Len(tail)) = tail
       /\ \A i \in 1..n :
            LET from == (i - 1) * (g + 1) IN
            /\ lists[from + 1] = "("
            /\ lists[from + g] = ")"
            /\ i < n => lists[from + g + 1] = ","
            /\ \A j \in 1..m :
                 /\ lists[from + 2 * j] = Placeholder(d, (i - 1) * m + j)
                 /\ j < m => lists[from + 2 * j + 1] = ","
                 /\ call.out.bindings[(i - 1) * m + j] = Field(rows[i], c[j])
       /\ Len(call.out.bindings) = n * m
       /\ Len(Positions(sql)) = Len(call.out.bindings)

C13_Witness ==
  /\ call.fn = "insert"
  /\ call.given.dialect = "pg"
  /\ call.given.data.isArray
  /\ Len(call.given.data.rows) = 2
  /\ Keys(call.given.data.rows[1]) = <<"name", "email">>
  /\ Keys(call.given.data.rows[2]) = <<"email">>
  /\ call.out.bindings = <<"'a'", "'b'", "undefined", "'e'">>
  /\ Len(Positions(call.out.sql)) = 4

----------------------------------------------------------------------------
(* C14: compileUpdate returns as bindings the SET values in the key order of *)
(* the data object, then the WHERE values in list order; compileDelete      *)
(* returns the WHERE values only; the placeholders of the text stand in     *)
(* that order and are as many as the bindings (sqlite and pg).              *)
C14_UpdateDeleteOrder ==
  /\ (call.fn = "update" /\ ~call.out.thrown) =>
       LET row == call.given.data.row IN
       /\ call.out.bindings = [i \in DOMAIN row |-> row[i].v] \o PredValues(call.given.where)
       /\ OwnedInOrder(call.given.dialect, call.out,
                       [i \in DOMAIN row |-> [lead |-> <<row[i].k, "=">>, value |-> row[i].v]]
                         \o PredOwners(call.given.where))
  /\ call.fn = "delete" =>
       /\ ~call.out.thrown
       /\ call.out.bindings = PredValues(call.given.where)
       /\ OwnedInOrder(call.given.dialect, call.out, PredOwners(call.given.where))

C14_Witness ==
  /\ call.fn = "update"
  /\ call.given.dialect = "pg"
  /\ Keys(call.given.data.row) = <<"email", "name">>
  /\ Len(call.given.where) = 2
  /\ call.out.bindings = <<"'c'", "'d'", "2", "1">>
  /\ Positions(call.out.sql) = <<6, 10, 14, 18>>

----------------------------------------------------------------------------
(* C15: no compile call changes the statement spec it is given - columns and *)
(* constraints included - so compiling the same spec again with the same    *)
(* dialect gives the same text, the same bindings and the same diagnostics. *)
C15_CompileLeavesIrAlone ==
  [][call'.fn # "none" =>
       /\ ir' = ir
       /\ call.fn = call'.fn => call'.out = call.out]_vars

----------------------------------------------------------------------------
(* C16: compileInsert with an empty row set and compileUpdate with an empty  *)
(* or missing column-value map throw and return no text and no bindings, in *)
(* sqlite and pg; QueryBuilder.insert / update then send nothing to the     *)
(* database.                                                                *)
C16_EmptyInputThrows ==
  ( \/ call.fn = "insert" /\ Len(RowsOf(call.given.data)) = 0
    \/ call.fn = "update" /\ (call.given.data.missing \/ Len(call.given.data.row) = 0) ) =>
    /\ call.out.thrown
    /\ call.out.error # ""
    /\ call.out.sql = <<>>
    /\ call.out.bindings = <<>>
    /\ call.sent = <<>>

C16_Witness ==
  /\ call.fn = "insert"
  /\ call.given.dialect = "pg"
  /\ call.given.data.isArray
  /\ call.given.data.rows = <<>>
  /\ call.out.thrown
  /\ call.sent = <<>>

----------------------------------------------------------------------------
(* C17: compileCreateTable and compileAlterTable of sqlite, pg, mysql and    *)
(* mssql, given a column whose type is in no type table, throw and return   *)
(* no text.                                                                 *)
C17_UnknownTypeThrows ==
  ( /\ call.fn \in {"createTable", "alterTable"}
    /\ \E i \in DOMAIN call.given.columns : call.given.columns[i].type \notin KnownTypes ) =>
    /\ call.out.thrown
    /\ call.out.sql = <<>>

----------------------------------------------------------------------------
(* C18: the sqlite compileSelect renders a right or full join as LEFT JOIN   *)
(* on the same table with the same ON operands and emits one downgrade      *)
(* diagnostic per such join, without an error; inner and left joins are     *)
(* rendered as JOIN / LEFT JOIN and emit no diagnostic.                     *)
C18_SqliteJoinDowngrade ==
  (call.fn = "get" /\ call.given.dialect = "sqlite") =>
    LET st == call.given.statements
        sql == call.out.sql
        rendered(j) ==
          (IF j.type = "inner" THEN <<"JOIN">> ELSE <<"LEFT", "JOIN">>)
            \o <<j.table, "ON", j.first, j.operator, j.second>>
        joins == JoinWith([i \in DOMAIN st.join |-> rendered(st.join[i])], <<>>)
        \* SELECT, the column list, FROM, the table
        from == 1 + (IF st.select = <<>> THEN 1 ELSE 2 * Len(st.select) - 1) + 2
        downgraded == SelectSeq(st.join, LAMBDA j : j.type \in {"right", "full"})
    IN /\ ~call.out.thrown
       /\ SubSeq(sql, from + 1, from + Len(joins)) = joins
       /\ \A p \in DOMAIN sql :
            sql[p] = "JOIN" => (p > from /\ p <= from + Len(joins))
       /\ Len(call.out.warnings) = Len(downgraded)
       /\ \A i \in DOMAIN downgraded : call.out.warnings[i][2] = downgraded[i].type

C18_Witness ==
  /\ call.fn = "get"
  /\ call.given.dialect = "sqlite"
  /\ Len(call.given.statements.join) = 1
  /\ call.given.statements.join[1].type = "full"
  /\ call.given.statements.select = <<>>
  /\ SubSeq(call.out.sql, 5, 11) = <<"LEFT", "JOIN", "orders", "ON", "users.id", "=",
                                     "orders.user_id">>
  /\ Len(call.out.warnings) = 1

----------------------------------------------------------------------------
(* C19: in every run of Client.transaction(cb), beginTransaction is called   *)
(* on the acquired connection before cb runs; if cb resolves, commit is     *)
(* called exactly once, rollback never, and the caller gets cb's value; if  *)
(* cb rejects, rollback is called exactly once, commit never, and the       *)
(* caller gets cb's error; the connection is released exactly once, after   *)
(* the commit or rollback.                                                  *)
Count(calls, name) == Cardinality({i \in DOMAIN calls : calls[i] = name})

C19_TransactionProtocol ==
  \A t \in Trxs :
    LET r == trx[t] IN
    /\ \A i \in DOMAIN r.calls :
         r.calls[i] = "callback" =>
           /\ r.calls[1] = "acquireConnection"
           /\ \E j \in 1..(i - 1) : r.calls[j] = "beginTransaction"
    /\ (r.pc = "done" /\ r.cb = "resolved") =>
         /\ Count(r.calls, "commitTransaction") = 1
         /\ Count(r.calls, "rollbackTransaction") = 0
         /\ r.outcome = "return cbValue"
    /\ (r.pc = "done" /\ r.cb = "rejected") =>
         /\ Count(r.calls, "rollbackTransaction") = 1
         /\ Count(r.calls, "commitTransaction") = 0
         /\ r.outcome = "throw cbError"
    /\ (r.pc = "done" /\ Count(r.calls, "beginTransaction") > 0) =>
         /\ Count(r.calls, "releaseConnection") = 1
         /\ r.calls[Len(r.calls)] = "releaseConnection"
         /\ r.calls[Len(r.calls) - 1] \in {"commitTransaction", "rollbackTransaction"}

----------------------------------------------------------------------------
----------------------------------------------------------------------------
(* C21: for every configuration configValidator accepts (the dialect module  *)
(* being installed), vesperDB(config) throws nothing and returns an instance *)
(* exposing client, schema, json, transaction and raw, and, with            *)
(* config.cache.enabled, a QueryCache as `cache`.                           *)
C21_ValidConfigBoots ==
  ( /\ boot.config.given = "object"
    /\ configValidator(boot.config) = ""
    /\ "createPool" \in Range(boot.trace) ) =>
      /\ boot.thrown = ""
      /\ boot.returned
      /\ {"client", "schema", "json", "transaction", "raw"} \subseteq boot.exposes
      /\ boot.config.cacheEnabled => "cache" \in boot.exposes

----------------------------------------------------------------------------
(* C22: in every statement the pg compiler returns (select, insert, update,  *)
(* delete) the placeholders read left to right are $1, $2, ..., $n, with no *)
(* gap and no repeat, n being the length of the bindings.                   *)
C22_PgNumbering ==
  ( /\ call.fn \in {"get", "insert", "update", "delete"}
    /\ call.given.dialect = "pg"
    /\ ~call.out.thrown ) =>
      LET ps == Positions(call.out.sql) IN
      /\ Len(ps) = Len(call.out.bindings)
      /\ \A i \in DOMAIN ps : call.out.sql[ps[i]] = Dollar(i)

C22_Witness ==
  /\ call.fn = "update"
  /\ call.given.dialect = "pg"
  /\ Len(call.given.where) = 2
  /\ Len(call.out.bindings) = 4
  /\ [i \in 1..4 |-> call.out.sql[Positions(call.out.sql)[i]]] = <<"$1", "$2", "$3", "$4">>

----------------------------------------------------------------------------
\* where the clause opened by the keyword kw starts in a text, 0 if it has none
ClauseAt(sql, kw) ==
  IF \E p \in DOMAIN sql : sql[p] = kw
  THEN CHOOSE p \in DOMAIN sql : sql[p] = kw /\ \A q \in 1..(p - 1) : sql[q] # kw
  ELSE 0
\* the clause after kw renders preds: the first as column operator mark, each later
\* one as its own connective, column, operator, mark, and nothing follows as a
\* further predicate
RendersPreds(sql, kw, preds) ==
  LET p == ClauseAt(sql, kw)
      at(i) == IF i = 1 THEN p + 1 ELSE p + 4 + 4 * (i - 2)
      last == p + 3 + 4 * (Len(preds) - 1)
  IN
  IF preds = <<>> THEN p = 0
  ELSE /\ p > 0
       /\ Len(sql) >= last
       /\ sql[p + 1] = preds[1].column
       /\ sql[p + 2] = preds[1].operator
       /\ IsPlaceholder(sql[p + 3])
       /\ \A i \in 2..Len(preds) :
            /\ sql[at(i)] = preds[i].boolean
            /\ sql[at(i) + 1] = preds[i].column
            /\ sql[at(i) + 2] = preds[i].operator
            /\ IsPlaceholder(sql[at(i) + 3])
       /\ Len(sql) > last => sql[last + 1] \notin {"AND", "OR"}

(* C23: in every WHERE and HAVING clause of the sqlite and pg compilers      *)
(* (select, update, delete) the first predicate is rendered as column,      *)
(* operator, placeholder without a connective, whatever its connective      *)
(* field holds, and every later predicate as its own connective, column,    *)
(* operator, placeholder, in list order.                                    *)
C23_PredicateRendering ==
  ( /\ call.fn \in {"get", "update", "delete"}
    /\ ~call.out.thrown ) =>
      IF call.fn = "get"
      THEN /\ RendersPreds(call.out.sql, "WHERE", call.given.statements.where)
           /\ RendersPreds(call.out.sql, "HAVING", call.given.statements.having)
      ELSE RendersPreds(call.out.sql, "WHERE", call.given.where)

C23_Witness ==
  /\ call.fn = "get"
  /\ call.given.dialect = "sqlite"
  /\ Len(call.given.statements.where) = 2
  /\ call.given.statements.where[1].boolean = "OR"
  /\ call.given.statements.where[2].boolean = "OR"
  /\ Len(call.given.statements.having) = 2
  /\ call.given.statements.having[2].boolean = "AND"
  /\ SubSeq(call.out.sql, ClauseAt(call.out.sql, "WHERE"),
            ClauseAt(call.out.sql, "WHERE") + 7)
       = <<"WHERE", "age", ">", "?", "OR", "age", ">", "?">>

----------------------------------------------------------------------------
(* C24: a select whose offset is set and whose limit is not compiles, in     *)
(* every dialect's query compiler, to a text with no OFFSET clause and no   *)
(* offset parameter; with both set, LIMIT and its parameter come before     *)
(* OFFSET and its parameter.                                                *)
C24_OffsetNeedsLimit ==
  ( /\ call.fn = "get"
    /\ ~call.out.thrown ) =>
      LET st == call.given.statements
          sql == call.out.sql
          n == Len(call.out.bindings)
      IN
      /\ (IsSet(st.offset) /\ ~IsSet(st.limit)) =>
            /\ "OFFSET" \notin Range(sql)
            /\ n = Len(st.where) + Len(st.having)
      /\ (IsSet(st.offset) /\ IsSet(st.limit)) =>
            /\ ClauseAt(sql, "LIMIT") > 0
            /\ ClauseAt(sql, "LIMIT") < ClauseAt(sql, "OFFSET")
            /\ n >= 2
            /\ call.out.bindings[n - 1] = st.limit
            /\ call.out.bindings[n] = st.offset

----------------------------------------------------------------------------
(* C25: with the default options (ttl set, allowStale false, updateAgeOnGet  *)
(* true) get never returns an entry whose time since its last put or last   *)
(* hit exceeds ttl - that lookup returns null and counts as a miss - and    *)
(* every hit restarts the ttl of the entry read.                            *)
C25_TtlOnGet ==
  [][ret'.op = "get" =>
       \A q \in Selects :
         CallGet(q) =>
           LET k == KeyOf(q) IN
           /\ (k \in KeysOf(cache) /\ EntryOf(cache, k).age > Ttl) =>
                 /\ ret'.value = Null
                 /\ stats' = [stats EXCEPT !.misses = @ + 1]
           /\ ret'.value # Null =>
                 /\ k \in KeysOf(cache)
                 /\ EntryOf(cache, k).age <= Ttl
                 /\ k \in KeysOf(cache')
                 /\ EntryOf(cache', k).age = 0]_vars

\* an entry that was hit is still fresh while one put after it has expired
C25_Witness ==
  /\ ret.op = "get"
  /\ ret.value # Null
  /\ stats = [hits |-> 1, misses |-> 0, sets |-> 2, invalidations |-> 0]
  /\ Len(cache) = 2
  /\ cache[1].age > Ttl
  /\ cache[2].age <= Ttl

----------------------------------------------------------------------------
(* C26: extractTablesFromQuery returns, for every identifier that follows    *)
(* FROM, JOIN, INTO, UPDATE or TABLE (in any case) - bare, quoted with      *)
(* backticks, double quotes or brackets, followed by an alias, or qualified *)
(* by one or more schema prefixes - the lower-cased final segment of the    *)
(* identifier, without quoting and without alias.                           *)
C26_ExtractsEveryTable ==
  ext.called => ext.names \subseteq ext.tables

----------------------------------------------------------------------------
(* C27: for every dialect, hasTable(t) returns true exactly when table t     *)
(* exists and hasColumn(t, c) returns true exactly when column c exists in   *)
(* table t.                                                                  *)
C27_ExistenceChecks ==
  /\ probe.fn = "hasTable" => (probe.returned <=> probe.table \in DOMAIN probe.catalog)
  /\ probe.fn = "hasColumn" =>
       (probe.returned <=> /\ probe.table \in DOMAIN probe.catalog
                           /\ probe.column \in probe.catalog[probe.table])

----------------------------------------------------------------------------
\* whether the tokens of part stand next to one another somewhere in text
Contains(text, part) ==
  \E p \in 0..(Len(text) - Len(part)) : SubSeq(text, p + 1, p + Len(part)) = part

(* C28: for every dialect, each unique group, each foreign key and each      *)
(* index declared in a table spec appears in what compileCreateTable         *)
(* returns, as a trailing constraint or as a statement after the CREATE      *)
(* TABLE; none is dropped.                                                   *)
C28_ConstraintsKept ==
  ( /\ call.fn = "createTable"
    /\ ~call.out.thrown ) =>
      LET k == call.given.constraints
          sql == call.out.sql
      IN
      /\ \A i \in DOMAIN k.unique : "UNIQUE" \in Range(sql)
      /\ \A i \in DOMAIN k.foreignKeys :
           /\ Contains(sql, <<"FOREIGN", "KEY">>)
           /\ "REFERENCES" \in Range(sql)
      /\ \A i \in DOMAIN k.index : "INDEX" \in Range(sql)

----------------------------------------------------------------------------

\* C29: a statement sent with Client.query that acquired a connection has released it
\* exactly once when the call settles, and the caller gets what executeQuery settled
\* with; statements of a transaction callback run on the connection of the run, which
\* is not released before commit or rollback; and a call that starts after destroy()
\* has emptied the pool throws without acquiring
C29_QueryReleasesOnce ==
  /\ \A q \in Queries :
       qry[q].pc = "done" =>
         /\ qry[q].acquired => qry[q].released = 1 /\ qry[q].outcome = qry[q].settled
         /\ qry[q].poolWas = "null" =>
              ~qry[q].acquired /\ qry[q].outcome = "throw poolError"
  /\ \A t \in Trxs :
       trx[t].pc \in {"callback", "commit", "rollback"} =>
         /\ Count(trx[t].calls, "acquireConnection") = 1
         /\ Count(trx[t].calls, "releaseConnection") = 0

\* C30: on mssql a run of Client.transaction that began its transaction object ends
\* with that object committed or rolled back, and the statements of its callback
\* ran inside it
C30_MssqlTransactionEnds ==
  \A t \in Trxs :
    client.dialect = "mssql" /\ trx[t].pc = "done"
      /\ Count(trx[t].calls, "beginTransaction") = 1 /\ trx[t].txn # "none" =>
        /\ trx[t].txn \in {"committed", "rolledback"}
        /\ \A i \in 1..Len(trx[t].stmts) : trx[t].stmts[i] = "transaction"

====
